---- MODULE Spec2Model ----
(***************************************************************************)
(* KPI extraction and citation pipeline of the Energy IC Copilot.          *)
(*                                                                         *)
(* Text is a sequence of one-character strings; offsets are Python's       *)
(* 0-based offsets.  Floats are modelled as exact decimals (a sequence of  *)
(* integer digits and a sequence of fraction digits), so binary rounding   *)
(* is not modelled.  Regular expressions are modelled by a backtracking    *)
(* matcher over the constructs the program's patterns use.                 *)
(***************************************************************************)
EXTENDS Integers, Sequences, FiniteSets, TLC

VARIABLES
    mappings,    \* KPIExtractor.mappings: ticker -> ordered KPI configurations
    citations,   \* KPIExtractor.citation_manager._citations
    fs,          \* the files on disk: name -> [exists, content]
    loaded,      \* the mappings as _load_mappings returned them to __init__
    last,        \* the latest extract_from_file call: its input and outcome
    cite,        \* a create_citation_from_match call: its input and result
    num,         \* an _extract_numeric_value call: its input and result
    single,      \* an _extract_single_kpi call: its input and result
    xbrl,        \* a call into xbrl_client: its input and result
    batch,       \* an extract_kpis_from_filings call: its position and locals
    calls,       \* concurrent extract_from_file calls: each one's position
    manager,     \* the Citation objects and the references a caller holds
    valuation    \* a calculate_valuation call: its input and result

vars == <<mappings, citations, fs, loaded, last, cite, num, single, xbrl,
          batch, calls, manager, valuation>>

\* the variables the later parts of the program use
others == <<batch, calls, manager, valuation>>

Idle == [pc |-> "idle"]

(***************************************************************************)
(* Characters and Python string operations                                 *)
(***************************************************************************)
DigitSeq == <<"0", "1", "2", "3", "4", "5", "6", "7", "8", "9">>
Digits == {DigitSeq[i] : i \in 1..10}
LowerSeq == <<"a", "b", "c", "d", "e", "f", "g", "h", "i", "j", "k", "l", "m",
              "n", "o", "p", "q", "r", "s", "t", "u", "v", "w", "x", "y", "z">>
UpperSeq == <<"A", "B", "C", "D", "E", "F", "G", "H", "I", "J", "K", "L", "M",
              "N", "O", "P", "Q", "R", "S", "T", "U", "V", "W", "X", "Y", "Z">>
Letters == {LowerSeq[i] : i \in 1..26} \cup {UpperSeq[i] : i \in 1..26}
WordChars == Letters \cup Digits \cup {"_"}
Whitespace == {" ", "\n", "\t", "\r", "\f"}

\* str.lower() on one character
LowerChar(c) ==
    IF \E i \in 1..26 : UpperSeq[i] = c
    THEN LowerSeq[CHOOSE i \in 1..26 : UpperSeq[i] = c]
    ELSE c

\* str.lower()
Lower(s) == [i \in 1..Len(s) |-> LowerChar(s[i])]

DigitVal(c) == (CHOOSE i \in 1..10 : DigitSeq[i] = c) - 1

Max2(a, b) == IF a >= b THEN a ELSE b
Min2(a, b) == IF a <= b THEN a ELSE b

\* Python's s[a:b] for integers a, b (negative offsets count from the end)
PySlice(s, a, b) ==
    LET n == Len(s)
        lo == IF a < 0 THEN Max2(0, n + a) ELSE Min2(a, n)
        hi == IF b < 0 THEN Max2(0, n + b) ELSE Min2(b, n)
    IN  IF lo >= hi THEN <<>> ELSE SubSeq(s, lo + 1, hi)

\* str.strip(): leading and trailing whitespace removed
Strip(s) ==
    LET keep == {i \in 1..Len(s) : s[i] \notin Whitespace}
    IN  IF keep = {} THEN <<>>
        ELSE SubSeq(s, CHOOSE i \in keep : \A j \in keep : i <= j,
                       CHOOSE i \in keep : \A j \in keep : i >= j)

\* re.sub(r'[...]', '', s): the characters of the class removed
RemoveChars(s, class) == SelectSeq(s, LAMBDA c : c \notin class)

\* Python's `sub in s` for strings
Contains(s, sub) ==
    \E i \in 0..(Len(s) - Len(sub)) : SubSeq(s, i + 1, i + Len(sub)) = sub

RECURSIVE Concat(_)
Concat(ss) == IF ss = <<>> THEN <<>> ELSE Head(ss) \o Concat(Tail(ss))

(***************************************************************************)
(* Floats as exact decimals: ip are the integer digits (no leading zero),  *)
(* fp the fraction digits (no trailing zero).                              *)
(***************************************************************************)
RECURSIVE StripLeadingZeros(_)
StripLeadingZeros(ds) ==
    IF ds # <<>> /\ Head(ds) = 0 THEN StripLeadingZeros(Tail(ds)) ELSE ds

RECURSIVE StripTrailingZeros(_)
StripTrailingZeros(ds) ==
    IF ds # <<>> /\ ds[Len(ds)] = 0
    THEN StripTrailingZeros(SubSeq(ds, 1, Len(ds) - 1))
    ELSE ds

Dec(ip, fp) == [ip |-> StripLeadingZeros(ip), fp |-> StripTrailingZeros(fp)]

\* a < b on digit sequences of equal length
RECURSIVE LexLess(_, _)
LexLess(a, b) ==
    IF a = <<>> \/ b = <<>> THEN a = <<>> /\ b # <<>>
    ELSE IF Head(a) # Head(b) THEN Head(a) < Head(b)
    ELSE LexLess(Tail(a), Tail(b))

DecLess(a, b) ==
    IF Len(a.ip) # Len(b.ip) THEN Len(a.ip) < Len(b.ip)
    ELSE IF a.ip # b.ip THEN LexLess(a.ip, b.ip)
    ELSE LexLess(a.fp, b.fp)

\* value >= 100
DecAtLeast100(a) == Len(a.ip) >= 3

\* value * 1000.0
DecTimes1000(a) ==
    LET f == a.fp \o <<0, 0, 0>>
    IN  Dec(a.ip \o SubSeq(f, 1, 3), SubSeq(f, 4, Len(f)))

\* value * 0.001
DecTimesThousandth(a) ==
    LET i == <<0, 0, 0>> \o a.ip
    IN  Dec(SubSeq(i, 1, Len(i) - 3), SubSeq(i, Len(i) - 2, Len(i)) \o a.fp)

\* float(s) for s made of digits and '.': ValueError unless s is digits with
\* at most one '.', and at least one digit
ParseFloat(s) ==
    LET dots == {i \in 1..Len(s) : s[i] = "."}
        wellFormed == /\ \A i \in 1..Len(s) : s[i] \in Digits \cup {"."}
                      /\ Cardinality(dots) <= 1
                      /\ \E i \in 1..Len(s) : s[i] \in Digits
        d == IF dots = {} THEN Len(s) + 1 ELSE CHOOSE i \in dots : TRUE
        digs(t) == [i \in 1..Len(t) |-> DigitVal(t[i])]
    IN  IF wellFormed
        THEN [ok |-> TRUE,
              val |-> Dec(digs(SubSeq(s, 1, d - 1)), digs(SubSeq(s, d + 1, Len(s))))]
        ELSE [ok |-> FALSE]

(***************************************************************************)
(* Regular expressions (Python's re): a pattern is a sequence of elements  *)
(*   lit  one literal character                                            *)
(*   cls  a character class (negated if neg) repeated greedily min..max    *)
(*   b    the word boundary \b                                             *)
(*   rep  a group repeated greedily min..max times                         *)
(*   alt  an ordered alternation of sequences                              *)
(*   gs, ge  the start and end of capture group 1                          *)
(* max < 0 stands for "unbounded".                                         *)
(***************************************************************************)
ReLit(c) == [t |-> "lit", c |-> c]
ReText(s) == [i \in 1..Len(s) |-> ReLit(s[i])]
ReCls(set, min, max) ==
    [t |-> "cls", neg |-> FALSE, set |-> set, min |-> min, max |-> max]
ReNotCls(set, min, max) ==
    [t |-> "cls", neg |-> TRUE, set |-> set, min |-> min, max |-> max]
ReB == [t |-> "b"]
ReRep(body, min, max) == [t |-> "rep", body |-> body, min |-> min, max |-> max]
ReAlt(alts) == [t |-> "alt", alts |-> alts]
ReGroup(body) == <<[t |-> "gs"]>> \o body \o <<[t |-> "ge"]>>

NoGroup == [set |-> FALSE, s |-> 0, e |-> 0]
Fail == [ok |-> FALSE]

\* \b at offset i of s
Boundary(s, i) ==
    LET before == i > 0 /\ s[i] \in WordChars
        after == i < Len(s) /\ s[i + 1] \in WordChars
    IN  before # after

\* how many characters of the class follow offset i, at most max
RECURSIVE RunLen(_, _, _, _)
RunLen(s, i, cls, max) ==
    IF max # 0 /\ i < Len(s) /\ (s[i + 1] \in cls.set) # cls.neg
    THEN 1 + RunLen(s, i + 1, cls, IF max < 0 THEN max ELSE max - 1)
    ELSE 0

\* the match r if it succeeded, otherwise the next thing the matcher tries
OrElse(r, next) == IF r.ok THEN r ELSE next

RECURSIVE MatchSeq(_, _, _, _, _)
RECURSIVE TryClass(_, _, _, _, _, _, _)
RECURSIVE TryAlt(_, _, _, _, _, _, _)

\* the match of elems at offset i of s, the first in backtracking order
MatchSeq(elems, s, i, g, ic) ==
    IF elems = <<>> THEN [ok |-> TRUE, end |-> i, g |-> g]
    ELSE
    LET e == Head(elems)
        rest == Tail(elems)
    IN  CASE e.t = "lit" ->
                IF /\ i < Len(s)
                   /\ IF ic THEN LowerChar(s[i + 1]) = LowerChar(e.c)
                            ELSE s[i + 1] = e.c
                THEN MatchSeq(rest, s, i + 1, g, ic)
                ELSE Fail
          [] e.t = "cls" ->
                TryClass(e.min, rest, s, i, RunLen(s, i, e, e.max), g, ic)
          [] e.t = "b" ->
                IF Boundary(s, i) THEN MatchSeq(rest, s, i, g, ic) ELSE Fail
          [] e.t = "rep" ->
                IF e.max = 0 THEN MatchSeq(rest, s, i, g, ic)
                ELSE
                LET again == [e EXCEPT !.min = Max2(0, @ - 1),
                                       !.max = IF @ < 0 THEN @ ELSE @ - 1]
                IN  OrElse(MatchSeq(e.body \o <<again>> \o rest, s, i, g, ic),
                           IF e.min = 0 THEN MatchSeq(rest, s, i, g, ic) ELSE Fail)
          [] e.t = "alt" -> TryAlt(e.alts, 1, rest, s, i, g, ic)
          [] e.t = "gs" -> MatchSeq(rest, s, i, [g EXCEPT !.s = i], ic)
          [] e.t = "ge" ->
                MatchSeq(rest, s, i, [set |-> TRUE, s |-> g.s, e |-> i], ic)

\* greedy class: the longest run first, then shorter ones
TryClass(min, rest, s, i, n, g, ic) ==
    IF n < min THEN Fail
    ELSE OrElse(MatchSeq(rest, s, i + n, g, ic),
                TryClass(min, rest, s, i, n - 1, g, ic))

\* alternation: the alternatives in order
TryAlt(alts, k, rest, s, i, g, ic) ==
    IF k > Len(alts) THEN Fail
    ELSE OrElse(MatchSeq(alts[k] \o rest, s, i, g, ic),
                TryAlt(alts, k + 1, rest, s, i, g, ic))

NoMatch == [matched |-> FALSE]

\* regex.search(s, pos): the leftmost match starting at or after pos
RECURSIVE SearchFrom(_, _, _, _)
\* the match object of a match r found at pos, otherwise the search goes on
MatchAt(r, elems, s, pos, ic) ==
    IF r.ok THEN [matched |-> TRUE, start |-> pos, end |-> r.end, g |-> r.g]
    ELSE SearchFrom(elems, s, pos + 1, ic)

SearchFrom(elems, s, pos, ic) ==
    IF pos > Len(s) THEN NoMatch
    ELSE MatchAt(MatchSeq(elems, s, pos, NoGroup, ic), elems, s, pos, ic)

\* re.findall for a pattern without capture groups: the matched strings
RECURSIVE FindAllFrom(_, _, _, _)
\* the match m and the matches after it
MatchAndRest(m, elems, s, ic) ==
    IF ~m.matched THEN <<>>
    ELSE <<PySlice(s, m.start, m.end)>> \o
         FindAllFrom(elems, s, IF m.end > m.start THEN m.end ELSE m.end + 1, ic)

FindAllFrom(elems, s, pos, ic) ==
    MatchAndRest(SearchFrom(elems, s, pos, ic), elems, s, ic)

FindAll(elems, s) == FindAllFrom(elems, s, 0, FALSE)

(***************************************************************************)
(* KPIExtractor._extract_numeric_value                                     *)
(***************************************************************************)
\* r'\b\d{1,3}(?:,\d{3})*(?:\.\d+)?\b'
GroupedNumberPattern ==
    <<ReB, ReCls(Digits, 1, 3),
      ReRep(<<ReLit(","), ReCls(Digits, 3, 3)>>, 0, -1),
      ReRep(<<ReLit("."), ReCls(Digits, 1, -1)>>, 0, 1),
      ReB>>

\* r'\b\d+(?:\.\d+)?\b'
SimpleNumberPattern ==
    <<ReB, ReCls(Digits, 1, -1),
      ReRep(<<ReLit("."), ReCls(Digits, 1, -1)>>, 0, 1),
      ReB>>

number_patterns == <<GroupedNumberPattern, SimpleNumberPattern>>

NoValue == [some |-> FALSE]
Some(v) == [some |-> TRUE, val |-> v]

\* max() of a non-empty sequence of decimals
DecLarger(a, b) == IF DecLess(a, b) THEN b ELSE a

RECURSIVE DecMax(_)
DecMax(vs) ==
    IF Len(vs) = 1 THEN vs[1]
    ELSE DecLarger(Head(vs), DecMax(Tail(vs)))

\* the floats of the matches that parse and are at least 100
\* lines 337-343: a parsed float is kept when it is at least 100
ValidValue(p) == IF p.ok /\ DecAtLeast100(p.val) THEN <<p.val>> ELSE <<>>

RECURSIVE ValidValues(_)
ValidValues(matches) ==
    IF matches = <<>> THEN <<>>
    ELSE ValidValue(ParseFloat(RemoveChars(Head(matches), {","})))
         \o ValidValues(Tail(matches))

\* lines 345-349: the largest of the valid values, None without any
LargestValue(valid_values) ==
    IF valid_values # <<>> THEN Some(DecMax(valid_values)) ELSE NoValue

\* lines 326-329: the matches of the patterns, pattern by pattern
AllMatches(cleaned) ==
    FindAll(number_patterns[1], cleaned) \o FindAll(number_patterns[2], cleaned)

_extract_numeric_value(text) ==
    LargestValue(ValidValues(AllMatches(RemoveChars(text, {"$", ","}))))

(***************************************************************************)
(* Specification SpecNum: _extract_numeric_value applied to bounded texts  *)
(***************************************************************************)
MaxNumPieces == 4

\* the fragments the input texts are concatenated from
NumPieces == {<<"0", "0">>, <<"1", "2">>, <<"3", "4", "5">>, <<".">>, <<",">>, <<"$">>, <<" ">>, <<"x">>}

\* the sequences of at most n elements of S
SeqsUpTo(S, n) == UNION {[1..k -> S] : k \in 0..n}

ExtractorIdle ==
    /\ batch = Idle
    /\ calls = Idle
    /\ manager = Idle
    /\ valuation = Idle
    /\ xbrl = Idle
    /\ mappings = <<>>
    /\ citations = <<>>
    /\ fs = <<>>
    /\ loaded = <<>>
    /\ last = Idle

NumInit ==
    /\ ExtractorIdle
    /\ cite = Idle
    /\ single = Idle
    /\ \E ps \in SeqsUpTo(NumPieces, MaxNumPieces) :
          num = [pc |-> "ready", text |-> Concat(ps)]

ExtractNumericValue ==
    /\ num.pc = "ready"
    /\ num' = [pc |-> "done", text |-> num.text,
               result |-> _extract_numeric_value(num.text)]
    /\ UNCHANGED <<mappings, citations, fs, loaded, last, cite, single, xbrl, others>>

NumNext == ExtractNumericValue

SpecNum == NumInit /\ [][NumNext]_vars

\* A numeric token of a text: a maximal decimal number (digits, optionally a
\* '.' and digits) between word boundaries, read left to right.
IsNumberAt(s, i, j) ==
    /\ i < j
    /\ Boundary(s, i)
    /\ Boundary(s, j)
    /\ \E d \in (i + 1)..j :
          /\ \A k \in (i + 1)..d : s[k] \in Digits
          /\ d < j => /\ s[d + 1] = "."
                      /\ d + 1 < j
                      /\ \A k \in (d + 2)..j : s[k] \in Digits

RECURSIVE NumericTokens(_, _)
NumericTokens(s, pos) ==
    LET starts == {i \in pos..Len(s) : \E j \in (i + 1)..Len(s) : IsNumberAt(s, i, j)}
    IN  IF starts = {} THEN {}
        ELSE LET i == CHOOSE x \in starts : \A y \in starts : x <= y
                 ends == {j \in (i + 1)..Len(s) : IsNumberAt(s, i, j)}
                 j == CHOOSE x \in ends : \A y \in ends : x >= y
             IN  {ParseFloat(PySlice(s, i, j)).val} \cup NumericTokens(s, j)

LargeTokens(text) ==
    {v \in NumericTokens(RemoveChars(text, {"$", ","}), 0) : DecAtLeast100(v)}

\* C10: _extract_numeric_value returns the largest numeric token >= 100 of the
\* text (after removing '$' and ','), and null exactly when there is none.
C10_LargestNumericToken ==
    num.pc = "done" =>
        LET large == LargeTokens(num.text)
        IN  IF large = {} THEN num.result = NoValue
            ELSE /\ num.result.some
                 /\ num.result.val \in large
                 /\ \A v \in large : ~DecLess(num.result.val, v)

(***************************************************************************)
(* Citation and create_citation_from_match                                 *)
(***************************************************************************)
DefaultContextChars == 100

Citation(doc_id, page, span, text_preview) ==
    [doc_id |-> doc_id, page |-> page, span |-> span, text_preview |-> text_preview]

\* preview_start = max(0, start_pos - context_chars // 2), clamp left out
PreviewStart_unclamped(start_pos, context_chars) ==
    start_pos - context_chars \div 2

\* preview_start = max(0, start_pos - context_chars // 2)
PreviewStart(start_pos, context_chars) ==
    Max2(0, start_pos - context_chars \div 2)

\* preview_end = min(len(text), end_pos + context_chars // 2)
PreviewEnd(text, end_pos, context_chars) ==
    Min2(Len(text), end_pos + context_chars \div 2)

create_citation_from_match(doc_id, page, text, start_pos, end_pos, context_chars) ==
    LET preview_start == PreviewStart(start_pos, context_chars)
        preview_end == PreviewEnd(text, end_pos, context_chars)
        preview == Strip(PySlice(text, preview_start, preview_end))
        adjusted_span == <<start_pos - preview_start, end_pos - preview_start>>
    IN  Citation(doc_id, page, adjusted_span, preview)

(***************************************************************************)
(* Specification SpecCite: create_citation_from_match applied to bounded   *)
(* texts, match offsets and context sizes                                  *)
(***************************************************************************)
MaxTextLen == 4
MaxContext == 4

CiteAlphabet == {" ", "A"}
ContextSizes == 0..MaxContext \cup {DefaultContextChars}

CiteInit ==
    /\ ExtractorIdle
    /\ num = Idle
    /\ single = Idle
    /\ \E text \in SeqsUpTo(CiteAlphabet, MaxTextLen) :
       \E start_pos \in 0..Len(text) :
       \E end_pos \in start_pos..Len(text) :
       \E context_chars \in ContextSizes :
          cite = [pc |-> "ready", text |-> text, start_pos |-> start_pos,
                  end_pos |-> end_pos, context_chars |-> context_chars]

CreateCitationFromMatch ==
    /\ cite.pc = "ready"
    /\ cite' = [cite EXCEPT
                  !.pc = "done"] @@
               [preview_start |-> PreviewStart(cite.start_pos, cite.context_chars),
                preview_end |-> PreviewEnd(cite.text, cite.end_pos, cite.context_chars),
                citation |-> create_citation_from_match(
                                 <<"t", "e", "s", "t", ".", "p", "d", "f">>, 1, cite.text, cite.start_pos,
                                 cite.end_pos, cite.context_chars)]
    /\ UNCHANGED <<mappings, citations, fs, loaded, last, num, single, xbrl, others>>

CiteNext == CreateCitationFromMatch

SpecCite == CiteInit /\ [][CiteNext]_vars

\* C7: every citation produced by create_citation_from_match satisfies
\* 0 <= span.start <= span.end <= length(text_preview).
C7_SpanWithinPreview ==
    cite.pc = "done" =>
        /\ 0 <= cite.citation.span[1]
        /\ cite.citation.span[1] <= cite.citation.span[2]
        /\ cite.citation.span[2] <= Len(cite.citation.text_preview)

\* C8: the preview window is clamped to the text: 0 <= preview_start <= start,
\* end <= preview_end <= len(text), span.start >= 0, span.end <= len(text), and
\* a match at offset 0 gets span.start = 0.
C8_WindowClamped ==
    cite.pc = "done" =>
        /\ 0 <= cite.preview_start
        /\ cite.preview_start <= cite.start_pos
        /\ cite.end_pos <= cite.preview_end
        /\ cite.preview_end <= Len(cite.text)
        /\ cite.citation.span[1] >= 0
        /\ cite.citation.span[2] <= Len(cite.text)
        /\ cite.start_pos = 0 => cite.citation.span[1] = 0

\* a citation built with a context larger than the text, for a match that
\* touches neither end of the text: both clamps act
C8_Witness ==
    /\ cite.pc = "done"
    /\ cite.context_chars > 2 * Len(cite.text)
    /\ 0 < cite.start_pos
    /\ cite.start_pos < cite.end_pos
    /\ cite.end_pos < Len(cite.text)
    /\ cite.preview_start = 0
    /\ cite.preview_end = Len(cite.text)

(***************************************************************************)
(* KPIExtractor._infer_scale_multiplier                                    *)
(***************************************************************************)
One == Dec(<<1>>, <<>>)
Thousand == Dec(<<1, 0, 0, 0>>, <<>>)
Thousandth == Dec(<<>>, <<0, 0, 1>>)

\* value * multiplier, for the multipliers the program uses
DecMul(value, multiplier) ==
    CASE multiplier = Thousand -> DecTimes1000(value)
      [] multiplier = Thousandth -> DecTimesThousandth(value)
      [] multiplier = One -> value

OptionalS == ReRep(<<ReLit("s")>>, 0, 1)

\* r"\bbillion(s)?\b|\bbn\b"
BillionPattern ==
    <<ReAlt(<< <<ReB>> \o ReText(<<"b", "i", "l", "l", "i", "o", "n">>) \o <<OptionalS, ReB>>,
               <<ReB>> \o ReText(<<"b", "n">>) \o <<ReB>> >>)>>

\* r"\bthousand(s)?\b"
ThousandPattern == <<ReB>> \o ReText(<<"t", "h", "o", "u", "s", "a", "n", "d">>) \o <<OptionalS, ReB>>

\* r"\bmillion(s)?\b|\bmm\b|\(\$?mm\)|\$mm\b"
MillionPattern ==
    <<ReAlt(<< <<ReB>> \o ReText(<<"m", "i", "l", "l", "i", "o", "n">>) \o <<OptionalS, ReB>>,
               <<ReB>> \o ReText(<<"m", "m">>) \o <<ReB>>,
               <<ReLit("("), ReRep(<<ReLit("$")>>, 0, 1)>> \o ReText(<<"m", "m", ")">>),
               ReText(<<"$", "m", "m">>) \o <<ReB>> >>)>>

\* re.search(pattern, t) is truthy
Found(elems, t) == SearchFrom(elems, t, 0, FALSE).matched

\* the thousand test made before the billion test
_infer_scale_multiplier_thousand_first(text) ==
    LET t == Lower(text)
    IN  IF Found(ThousandPattern, t) THEN Thousandth
        ELSE IF Found(BillionPattern, t) THEN Thousand
        ELSE One

_infer_scale_multiplier(text) ==
    LET t == Lower(text)
    IN  IF Found(BillionPattern, t) THEN Thousand
        ELSE IF Found(ThousandPattern, t) THEN Thousandth
        ELSE IF Found(MillionPattern, t) THEN One
        ELSE One

(***************************************************************************)
(* The regex patterns of the KPI mapping configuration.  A pattern that    *)
(* re.compile rejects has compiles = FALSE; groups is the number of        *)
(* capture groups.                                                         *)
(***************************************************************************)
Pattern(src, elems, groups) ==
    [src |-> src, compiles |-> TRUE, elems |-> elems, groups |-> groups]
BadPattern(src) == [src |-> src, compiles |-> FALSE, elems |-> <<>>, groups |-> 0]

OptionalDollar == ReRep(<<ReLit("$")>>, 0, 1)
Amount == ReCls(Digits \cup {","}, 1, -1)
RestOfLine == ReNotCls({"\n"}, 0, -1)

PatEbitda ==
    Pattern("EBITDA \\$?([0-9,]+)",
            ReText(<<"E", "B", "I", "T", "D", "A", " ">>) \o <<OptionalDollar>> \o ReGroup(<<Amount>>), 1)

PatAdjustedEbitda ==
    Pattern("Adjusted EBITDA \\$?([0-9,]+)",
            ReText(<<"A", "d", "j", "u", "s", "t", "e", "d", " ", "E", "B", "I", "T", "D", "A", " ">>) \o <<OptionalDollar>> \o ReGroup(<<Amount>>), 1)

PatEbitdaScaled ==
    Pattern("EBITDA \\$?([0-9,]+(?:\\.[0-9]+)?)[^\\n]*",
            ReText(<<"E", "B", "I", "T", "D", "A", " ">>) \o <<OptionalDollar>>
            \o ReGroup(<<Amount, ReRep(<<ReLit("."), ReCls(Digits, 1, -1)>>, 0, 1)>>)
            \o <<RestOfLine>>, 1)

PatEbitdaLine ==
    Pattern("EBITDA[^\\n]*", ReText(<<"E", "B", "I", "T", "D", "A">>) \o <<RestOfLine>>, 0)

PatFfoLine ==
    Pattern("FFO[^\\n]*", ReText(<<"F", "F", "O">>) \o <<RestOfLine>>, 0)

PatOptionalGroup ==
    Pattern("EBITDA (\\$)?[0-9,]+",
            ReText(<<"E", "B", "I", "T", "D", "A", " ">>) \o <<ReRep(ReGroup(<<ReLit("$")>>), 0, 1), Amount>>, 1)

PatUnbalanced == BadPattern("EBITDA (")

(***************************************************************************)
(* KPIExtractor._extract_single_kpi                                        *)
(***************************************************************************)
NoneNone == [raised |-> FALSE, some |-> FALSE]
Raised(exc) == [raised |-> TRUE, exc |-> exc]

\* lines 274-277: the float of the cleaned group, or the scan of the match text
GroupValue(parsed, match_text) ==
    IF parsed.ok
    THEN [raised |-> FALSE, some |-> TRUE, val |-> parsed.val]
    ELSE [raised |-> FALSE] @@ _extract_numeric_value(match_text)

\* lines 269-279: the number of a match, from group 1 or from the match text
MatchValue(content, pattern, match) ==
    IF pattern.groups > 0
    THEN IF ~match.g.set
         THEN Raised("TypeError")   \* re.sub on match.group(1) = None
         ELSE GroupValue(
                  ParseFloat(RemoveChars(
                      RemoveChars(PySlice(content, match.g.s, match.g.e), {"$", ","}),
                      {","})),
                  PySlice(content, match.start, match.end))
    ELSE [raised |-> FALSE]
         @@ _extract_numeric_value(PySlice(content, match.start, match.end))

\* lines 281-302: the scaled value and the citation of the match
ScaledAndCited(value, content, match, doc_id) ==
    IF value.raised THEN value
    ELSE IF ~value.some THEN NoneNone
    ELSE [raised |-> FALSE, some |-> TRUE,
          value |-> DecMul(value.val,
                           _infer_scale_multiplier(
                               PySlice(content, match.start, match.end))),
          citation |-> create_citation_from_match(
                           doc_id, 1, content, match.start, match.end,
                           DefaultContextChars)]

\* lines 264-302: what is made of the result of regex.search
AfterSearch(match, content, pattern, doc_id) ==
    IF ~match.matched THEN NoneNone
    ELSE ScaledAndCited(MatchValue(content, pattern, match), content, match, doc_id)

\* the body of the try block: the result, or the exception it raises
SingleKpiTry(content, pattern, doc_id, unit, normalize) ==
    IF ~pattern.compiles THEN Raised("re.error")
    ELSE AfterSearch(SearchFrom(pattern.elems, content, 0, TRUE), content,
                     pattern, doc_id)

\* the try block without its except clause
_extract_single_kpi_uncaught(content, pattern, doc_id, unit, normalize) ==
    SingleKpiTry(content, pattern, doc_id, unit, normalize)

\* (value, citation), or (None, None) when nothing is found or anything raises
Caught(r) == IF r.raised THEN NoneNone ELSE r

_extract_single_kpi(content, pattern, doc_id, unit, normalize) ==
    Caught(SingleKpiTry(content, pattern, doc_id, unit, normalize))

(***************************************************************************)
(* Specification SpecSingle: _extract_single_kpi applied to bounded texts  *)
(* and the patterns above                                                  *)
(***************************************************************************)
MaxSinglePieces == 3

SinglePieces ==
    {<<"E", "B", "I", "T", "D", "A", " ", "$", "4", ".", "2">>, <<"E", "B", "I", "T", "D", "A", " ", "5", "0", "0">>, <<" ", "b", "i", "l", "l", "i", "o", "n">>, <<" ", "T", "h", "o", "u", "s", "a", "n", "d", "s">>, <<" ", "b", "n">>, <<"s">>}

SinglePatterns ==
    {PatEbitda, PatEbitdaScaled, PatEbitdaLine, PatOptionalGroup, PatUnbalanced}

SingleInit ==
    /\ ExtractorIdle
    /\ cite = Idle
    /\ num = Idle
    /\ \E ps \in SeqsUpTo(SinglePieces, MaxSinglePieces) :
       \E pattern \in SinglePatterns :
          single = [pc |-> "ready", content |-> Concat(ps), pattern |-> pattern]

ExtractSingleKpi ==
    /\ single.pc = "ready"
    /\ single' = [pc |-> "done", content |-> single.content,
                  pattern |-> single.pattern,
                  result |-> _extract_single_kpi(single.content, single.pattern,
                                                 <<"t", "e", "s", "t", ".", "t", "x", "t">>, "USD millions",
                                                 "strip_commas")]
    /\ UNCHANGED <<mappings, citations, fs, loaded, last, cite, num, xbrl, others>>

SingleNext == ExtractSingleKpi

SpecSingle == SingleInit /\ [][SingleNext]_vars

\* some word of the set occurs in the text as a whole word, in any case
HasWholeWord(text, words) ==
    \E w \in words : \E i \in 0..(Len(text) - Len(w)) :
        /\ Boundary(text, i)
        /\ Boundary(text, i + Len(w))
        /\ Lower(PySlice(text, i, i + Len(w))) = w

FactorOf(text) ==
    IF HasWholeWord(text, {<<"b", "i", "l", "l", "i", "o", "n">>, <<"b", "i", "l", "l", "i", "o", "n", "s">>, <<"b", "n">>}) THEN Thousand
    ELSE IF HasWholeWord(text, {<<"t", "h", "o", "u", "s", "a", "n", "d">>, <<"t", "h", "o", "u", "s", "a", "n", "d", "s">>}) THEN Thousandth
    ELSE One

SingleMatch == SearchFrom(single.pattern.elems, single.content, 0, TRUE)
SingleMatchText == PySlice(single.content, SingleMatch.start, SingleMatch.end)

\* C9: the value extracted for a match is the parsed number times a factor
\* chosen from the matched text: 1000 for a whole word billion/billions/bn,
\* otherwise 0.001 for thousand/thousands, otherwise 1; the call never fails.
C9_ScaleFactor ==
    single.pc = "done" =>
        /\ ~single.result.raised
        /\ single.result.some =>
              LET number == MatchValue(single.content, single.pattern, SingleMatch)
              IN  single.result.value = DecMul(number.val, FactorOf(SingleMatchText))

\* a value taken from a match that names both a billion and a thousand word
C9_Witness ==
    /\ single.pc = "done"
    /\ single.result.some
    /\ HasWholeWord(SingleMatchText, {<<"b", "i", "l", "l", "i", "o", "n">>, <<"b", "i", "l", "l", "i", "o", "n", "s">>, <<"b", "n">>})
    /\ HasWholeWord(SingleMatchText, {<<"t", "h", "o", "u", "s", "a", "n", "d">>, <<"t", "h", "o", "u", "s", "a", "n", "d", "s">>})
    /\ single.result.value = DecTimes1000(
           MatchValue(single.content, single.pattern, SingleMatch).val)

(***************************************************************************)
(* KPIExtractor.extract_from_file                                          *)
(***************************************************************************)
ExtractedKPI(value, unit, citation) ==
    [value |-> value, unit |-> unit, citation |-> citation]

\* one KPI entry of the mappings, with the defaults of config.get applied
KpiConfig(name, patterns, unit, prefer) ==
    [name |-> name, patterns |-> patterns, unit |-> unit, prefer |-> prefer,
     normalize |-> "strip_commas"]

\* d[k] = v on a dict
SetItem(d, k, v) == [x \in DOMAIN d \cup {k} |-> IF x = k THEN v ELSE d[x]]

\* Path.suffix: from the last '.' of the name, unless the name starts with it
PathSuffix(name) ==
    LET dots == {i \in 2..Len(name) : name[i] = "."}
    IN  IF dots = {} THEN <<>>
        ELSE SubSeq(name, CHOOSE i \in dots : \A j \in dots : i >= j, Len(name))

\* open(file_path).read()
OpenAndRead(files, file_path) ==
    IF file_path \in DOMAIN files
    THEN [raised |-> FALSE, content |-> files[file_path]]
    ELSE [raised |-> TRUE, exc |-> "FileNotFoundError", msg |-> "No such file"]

_read_file_content(files, file_path) ==
    LET suffix == Lower(PathSuffix(file_path))
    IN  IF suffix = <<".", "t", "x", "t">> THEN OpenAndRead(files, file_path)
        ELSE IF suffix = <<".", "p", "d", "f">>
        THEN [raised |-> FALSE,
              content |-> <<"S", "A", "M", "P", "L", "E", " ", "P", "D", "F", " ", "C", "O", "N", "T", "E", "N", "T", " ", "F", "R", "O", "M", " ">> \o file_path]
        ELSE IF suffix \in {<<".", "h", "t", "m", "l">>, <<".", "h", "t", "m">>} THEN OpenAndRead(files, file_path)
        ELSE [raised |-> TRUE, exc |-> "ValueError", msg |-> "Unsupported file type"]

\* lines 171-174: a ticker without mappings is an empty configuration
TickerMappings_lenient(m, ticker) ==
    IF ticker \notin DOMAIN m
    THEN [raised |-> FALSE, ticker_mappings |-> <<>>]
    ELSE [raised |-> FALSE, ticker_mappings |-> m[ticker]]

\* lines 171-174: the mappings of the ticker, or the ValueError
TickerMappings(m, ticker) ==
    IF ticker \notin DOMAIN m
    THEN [raised |-> TRUE, exc |-> "ValueError", msg |-> "No mappings found for ticker"]
    ELSE [raised |-> FALSE, ticker_mappings |-> m[ticker]]

\* lines 183-185: the loop variables of one KPI
LoopStart ==
    [broke |-> FALSE, raised |-> FALSE, kpi |-> [some |-> FALSE],
     best |-> [some |-> FALSE]]

\* lines 192-218 with the first value taken whatever the preference
PatternStep_first_value(st, content, pattern, doc_id, config) ==
    LET r == _extract_single_kpi(content, pattern, doc_id, config.unit,
                                 config.normalize)
    IN  IF ~r.some THEN st
        ELSE [st EXCEPT !.broke = TRUE,
                        !.kpi = [some |-> TRUE,
                                 val |-> ExtractedKPI(r.value, config.unit, r.citation)]]

\* lines 192-218 with `elif best_match is None` replaced by `else`
PatternStep_last_fallback(st, content, pattern, doc_id, config) ==
    LET r == _extract_single_kpi(content, pattern, doc_id, config.unit,
                                 config.normalize)
        match == SearchFrom(pattern.elems, content, 0, TRUE)
    IN  IF ~r.some THEN st
        ELSE IF config.prefer # <<>>
             /\ ~(match.matched
                  /\ Contains(PySlice(content, match.start, match.end), config.prefer))
        THEN [st EXCEPT !.best = [some |-> TRUE, pattern |-> pattern,
                                  value |-> r.value, citation |-> r.citation]]
        ELSE [st EXCEPT !.broke = TRUE, !.best = [some |-> FALSE],
                        !.kpi = [some |-> TRUE,
                                 val |-> ExtractedKPI(r.value, config.unit, r.citation)]]

\* lines 199-205 and 213-218: the result is accepted and the loop left
Accept(st, r, config) ==
    [st EXCEPT !.broke = TRUE, !.best = [some |-> FALSE],
               !.kpi = [some |-> TRUE,
                        val |-> ExtractedKPI(r.value, config.unit, r.citation)]]

\* lines 197-210: a preferred match is accepted, the first other one is held
PreferenceStep(st, r, match, content, pattern, config) ==
    IF match.matched
       /\ Contains(PySlice(content, match.start, match.end), config.prefer)
    THEN Accept(st, r, config)
    ELSE IF ~st.best.some
    THEN [st EXCEPT !.best = [some |-> TRUE, pattern |-> pattern,
                              value |-> r.value, citation |-> r.citation]]
    ELSE st

\* lines 192-218: what is made of the result r of _extract_single_kpi
AfterExtract(st, r, content, pattern, config) ==
    IF r.raised THEN [st EXCEPT !.raised = TRUE] @@ [exc |-> r.exc]
    ELSE IF ~r.some THEN st
    ELSE IF config.prefer # <<>>
    THEN IF ~pattern.compiles
         THEN [st EXCEPT !.raised = TRUE] @@ [exc |-> "re.error"]
         ELSE PreferenceStep(st, r, SearchFrom(pattern.elems, content, 0, TRUE),
                             content, pattern, config)
    ELSE Accept(st, r, config)

\* lines 188-218: one iteration of the pattern loop
PatternStep(st, content, pattern, doc_id, config) ==
    AfterExtract(st,
                 _extract_single_kpi(content, pattern, doc_id, config.unit,
                                     config.normalize),
                 content, pattern, config)

\* lines 187-218: the pattern loop, from pattern i on
RECURSIVE PatternLoop(_, _, _, _, _, _)
PatternLoop(st, content, patterns, i, doc_id, config) ==
    IF i > Len(patterns) \/ st.broke \/ st.raised THEN st
    ELSE PatternLoop(PatternStep(st, content, patterns[i], doc_id, config),
                     content, patterns, i + 1, doc_id, config)

\* lines 220-226 left out
UseFallback_never(extracted_kpis, st, config) == extracted_kpis

\* lines 220-226: the held match is used when no pattern was accepted
UseFallback(extracted_kpis, st, config) ==
    IF st.best.some /\ st.best.pattern.src # ""
       /\ config.name \notin DOMAIN extracted_kpis
    THEN SetItem(extracted_kpis, config.name,
                 ExtractedKPI(st.best.value, config.unit, st.best.citation))
    ELSE extracted_kpis

\* lines 199-218: the entry set inside the pattern loop
Accepted(extracted_kpis, st, config) ==
    IF st.kpi.some THEN SetItem(extracted_kpis, config.name, st.kpi.val)
    ELSE extracted_kpis

RECURSIVE KpiLoop(_, _, _, _, _)
\* lines 176-226 for one KPI, st being the outcome of its pattern loop
KpiStep(extracted_kpis, st, content, ticker_mappings, k, doc_id) ==
    IF st.raised THEN [kind |-> "raise", exc |-> st.exc, msg |-> "pattern"]
    ELSE KpiLoop(UseFallback(Accepted(extracted_kpis, st, ticker_mappings[k]),
                             st, ticker_mappings[k]),
                 content, ticker_mappings, k + 1, doc_id)

\* lines 176-228: the loop over the KPIs of the ticker, from KPI k on
KpiLoop(extracted_kpis, content, ticker_mappings, k, doc_id) ==
    IF k > Len(ticker_mappings) THEN [kind |-> "return", kpis |-> extracted_kpis]
    ELSE KpiStep(extracted_kpis,
                 PatternLoop(LoopStart, content, ticker_mappings[k].patterns, 1,
                             doc_id, ticker_mappings[k]),
                 content, ticker_mappings, k, doc_id)

\* lines 166-228 once the file was read and the ticker looked up
AfterRead(read, tm, file_path) ==
    IF read.raised THEN [kind |-> "raise", exc |-> read.exc, msg |-> read.msg]
    ELSE IF tm.raised THEN [kind |-> "raise", exc |-> tm.exc, msg |-> tm.msg]
    ELSE KpiLoop(<<>>, read.content, tm.ticker_mappings, 1, file_path)

\* the outcome of extract_from_file: the returned dict or the raised exception
extract_from_file(m, files, file_path, ticker) ==
    AfterRead(_read_file_content(files, file_path), TickerMappings(m, ticker),
              file_path)

\* config.pop('patterns', []) in place of config.get('patterns', [])
mappings_after_extract_popped(m, files, file_path, ticker) ==
    IF ~_read_file_content(files, file_path).raised /\ ticker \in DOMAIN m
    THEN [m EXCEPT ![ticker] =
             [k \in DOMAIN @ |-> [@[k] EXCEPT !.patterns = <<>>]]]
    ELSE m

\* self.mappings after the call: the call only reads it
mappings_after_extract(m, files, file_path, ticker) == m

(***************************************************************************)
(* Specification Spec: a KPIExtractor loaded with a mapping configuration, *)
(* one filing on disk, and extract_from_file called again and again        *)
(***************************************************************************)
MaxPatterns == 2

\* the filings the extractor is run on
Filings ==
    {<<>>,
     <<"E", "B", "I", "T", "D", "A", " ", "$", "3", ",", "4", "5", "0", " ", "m", "i", "l", "l", "i", "o", "n", "\n", "A", "d", "j", "u", "s", "t", "e", "d", " ", "E", "B", "I", "T", "D", "A", " ", "4", ",", "2", "0", "0", "\n">>,
     <<"E", "B", "I", "T", "D", "A", " ", "$", "3", ",", "4", "5", "0", " ", "m", "i", "l", "l", "i", "o", "n", "\n", "A", "D", "J", "U", "S", "T", "E", "D", " ", "E", "B", "I", "T", "D", "A", " ", "$", "2", "2", "0", "\n">>,
     <<"A", "D", "J", "U", "S", "T", "E", "D", " ", "E", "B", "I", "T", "D", "A", " ", "$", "2", "2", "0", "\n", "F", "F", "O", " ", "9", "0", "\n">>,
     <<"A", "d", "j", "u", "s", "t", "e", "d", " ", "E", "B", "I", "T", "D", "A", " ", "4", ",", "2", "0", "0", "\n", "F", "F", "O", " ", "2", ",", "8", "9", "0", "\n">>}

EbitdaPatterns == {PatEbitda, PatAdjustedEbitda, PatOptionalGroup, PatUnbalanced}

\* the mappings of ticker PPL: EBITDA with any pattern list and an optional
\* preference, then FFO
TickerConfigs ==
    {<<KpiConfig("EBITDA", patterns, "CAD millions", prefer),
       KpiConfig("FFO", <<PatFfoLine>>, "CAD millions", <<>>)>> :
        patterns \in SeqsUpTo(EbitdaPatterns, MaxPatterns),
        prefer \in {<<>>, <<"A", "d", "j", "u", "s", "t", "e", "d">>}}

Filing == <<"p", "p", "l", "_", "q", "2", ".", "t", "x", "t">>
Paths == {Filing, <<"p", "p", "l", "_", "q", "1", ".", "t", "x", "t">>, <<"p", "p", "l", "_", "q", "2", ".", "p", "d", "f">>, <<"p", "p", "l", "_", "q", "2", ".", "x", "l", "s", "x">>}
Tickers == {"PPL", "XOM"}

Init ==
    /\ batch = Idle
    /\ calls = Idle
    /\ manager = Idle
    /\ valuation = Idle
    /\ cite = Idle
    /\ xbrl = Idle
    /\ num = Idle
    /\ single = Idle
    /\ citations = <<>>
    /\ last = Idle
    /\ \E content \in Filings : fs = (Filing :> content)
    /\ \E config \in TickerConfigs :
          /\ loaded = ("PPL" :> config)
          /\ mappings = loaded

ExtractFromFile(file_path, ticker) ==
    /\ last' = [pc |-> "done", file_path |-> file_path, ticker |-> ticker,
                outcome |-> extract_from_file(mappings, fs, file_path, ticker)]
    /\ mappings' = mappings_after_extract(mappings, fs, file_path, ticker)
    /\ UNCHANGED <<citations, fs, loaded, cite, num, single, xbrl, others>>

Next == \E file_path \in Paths : \E ticker \in Tickers :
            ExtractFromFile(file_path, ticker)

Spec == Init /\ [][Next]_vars

(***************************************************************************)
(* The claims about extract_from_file, stated on the latest call           *)
(***************************************************************************)
Returned == last.pc = "done" /\ last.outcome.kind = "return"
LastRead == _read_file_content(fs, last.file_path)
LastContent == LastRead.content
LastConfigs == {mappings[last.ticker][k] : k \in DOMAIN mappings[last.ticker]}

\* what pattern i of the KPI yields on the document of the latest call
Yield(config, i) ==
    _extract_single_kpi(LastContent, config.patterns[i], last.file_path,
                        config.unit, config.normalize)

\* pattern i compiles and matches the document; its matched text
Matches(config, i) ==
    /\ config.patterns[i].compiles
    /\ SearchFrom(config.patterns[i].elems, LastContent, 0, TRUE).matched
MatchedText(config, i) ==
    LET match == SearchFrom(config.patterns[i].elems, LastContent, 0, TRUE)
    IN  PySlice(LastContent, match.start, match.end)

Yielding(config) == {i \in DOMAIN config.patterns : Yield(config, i).some}
Preferred(config) ==
    {i \in Yielding(config) :
        config.prefer # <<>> /\ Contains(MatchedText(config, i), config.prefer)}

Least(S) == CHOOSE i \in S : \A j \in S : i <= j

\* the entry of the KPI is the one pattern i yields
ComesFrom(config, i) ==
    /\ config.name \in DOMAIN last.outcome.kpis
    /\ last.outcome.kpis[config.name] =
           ExtractedKPI(Yield(config, i).value, config.unit, Yield(config, i).citation)

\* C1: for a KPI with a preferred substring, if some pattern yields a value and
\* its matched text contains the substring, the result comes from the first such
\* pattern, even when earlier patterns matched without it.
C1_PreferredMatchWins ==
    Returned =>
        \A config \in LastConfigs :
            Preferred(config) # {} => ComesFrom(config, Least(Preferred(config)))

\* an earlier pattern yields a value without the preference, a later one with it
C1_Witness ==
    /\ Returned
    /\ \E config \in LastConfigs :
          /\ Preferred(config) # {}
          /\ Least(Yielding(config)) < Least(Preferred(config))
          /\ Yield(config, Least(Yielding(config))).value
                 # Yield(config, Least(Preferred(config))).value

\* C2: without a preference, or when no matched text contains it, the result
\* comes from the first pattern that yields a value; a later match never
\* replaces the held fallback.
C2_FirstValueWins ==
    Returned =>
        \A config \in LastConfigs :
            (Preferred(config) = {} /\ Yielding(config) # {})
                => ComesFrom(config, Least(Yielding(config)))

\* a preference is configured, no match contains it, and two patterns yield
\* different results
C2_Witness ==
    /\ Returned
    /\ \E config \in LastConfigs :
          /\ config.prefer # <<>>
          /\ Preferred(config) = {}
          /\ \E i \in Yielding(config) :
                /\ i > Least(Yielding(config))
                /\ Yield(config, i) # Yield(config, Least(Yielding(config)))

\* C3 as claimed: the mapping has an entry for exactly the KPIs of which a
\* pattern matched the document text.
C3_EntryIffPatternMatched ==
    Returned =>
        /\ DOMAIN last.outcome.kpis \subseteq {config.name : config \in LastConfigs}
        /\ \A config \in LastConfigs :
              config.name \in DOMAIN last.outcome.kpis
                  <=> \E i \in DOMAIN config.patterns : Matches(config, i)

\* C3 amended: the mapping has an entry for exactly the KPIs of which a pattern
\* yields a value (a match from which a number is obtained); an empty document
\* yields an empty mapping.
C3_EntryIffPatternYields ==
    Returned =>
        /\ DOMAIN last.outcome.kpis \subseteq {config.name : config \in LastConfigs}
        /\ \A config \in LastConfigs :
              config.name \in DOMAIN last.outcome.kpis <=> Yielding(config) # {}
        /\ LastContent = <<>> => last.outcome.kpis = <<>>

\* one KPI has an entry taken from a held fallback, another has a matching
\* pattern and no entry
C3_Witness ==
    /\ Returned
    /\ \E config \in LastConfigs :
          /\ config.prefer # <<>>
          /\ Preferred(config) = {}
          /\ config.name \in DOMAIN last.outcome.kpis
    /\ \E config \in LastConfigs :
          /\ config.name \notin DOMAIN last.outcome.kpis
          /\ \E i \in DOMAIN config.patterns : Matches(config, i)

ConfigurationMissing ==
    [kind |-> "raise", exc |-> "ValueError", msg |-> "No mappings found for ticker"]

\* C4 as claimed: whenever the ticker has no mappings the call fails with the
\* configuration-missing error, for every document input.
C4_UnknownTickerFails ==
    (last.pc = "done" /\ last.ticker \notin DOMAIN mappings)
        => last.outcome = ConfigurationMissing

\* C4 amended: whenever the ticker has no mappings the call raises and returns
\* no mapping; the error is the configuration-missing error for every document
\* that can be read (reading the file comes first, and its error wins).
C4_UnknownTickerFailsAfterRead ==
    (last.pc = "done" /\ last.ticker \notin DOMAIN mappings)
        => /\ last.outcome.kind = "raise"
           /\ ~LastRead.raised => last.outcome = ConfigurationMissing
           /\ LastRead.raised =>
                  last.outcome = [kind |-> "raise", exc |-> LastRead.exc,
                                  msg |-> LastRead.msg]

\* an unknown ticker with a readable, non-empty document
C4_Witness ==
    /\ last.pc = "done"
    /\ last.ticker \notin DOMAIN mappings
    /\ ~LastRead.raised
    /\ LastContent # <<>>
    /\ last.outcome = ConfigurationMissing

\* the patterns of the list that raise on the content, taken out
RECURSIVE WithoutRaising(_, _)
WithoutRaising(patterns, content) ==
    IF patterns = <<>> THEN <<>>
    ELSE (IF SingleKpiTry(content, Head(patterns), <<>>, "", "").raised
          THEN <<>> ELSE <<Head(patterns)>>)
         \o WithoutRaising(Tail(patterns), content)

MappingsWithoutRaising(m, content) ==
    [t \in DOMAIN m |->
        [k \in DOMAIN m[t] |->
            [m[t][k] EXCEPT !.patterns = WithoutRaising(@, content)]]]

\* C5: a pattern that fails to compile or raises during matching counts as no
\* match for that pattern only: the call does not raise, and returns what it
\* returns with the raising patterns taken out of the configuration.
C5_RaisingPatternSkipped ==
    (last.pc = "done" /\ ~LastRead.raised /\ last.ticker \in DOMAIN mappings)
        => /\ last.outcome.kind = "return"
           /\ last.outcome =
                  extract_from_file(MappingsWithoutRaising(mappings, LastContent),
                                    fs, last.file_path, last.ticker)

\* a KPI whose first pattern raises gets its entry from a later pattern, and
\* another KPI has an entry too
C5_Witness ==
    /\ Returned
    /\ \E config \in LastConfigs :
          /\ config.patterns # <<>>
          /\ SingleKpiTry(LastContent, config.patterns[1], <<>>, "", "").raised
          /\ config.name \in DOMAIN last.outcome.kpis
          /\ \E other \in LastConfigs :
                /\ other.name # config.name
                /\ other.name \in DOMAIN last.outcome.kpis

\* C6: extraction is deterministic: whatever calls were made before, a call
\* returns what a call with the same file and ticker returns on the extractor
\* as it was constructed, so any number of calls return identical mappings.
C6_Deterministic ==
    last.pc = "done" =>
        last.outcome = extract_from_file(loaded, fs, last.file_path, last.ticker)

\* a call that returns KPIs
C6_Witness ==
    /\ Returned
    /\ Cardinality(DOMAIN last.outcome.kpis) = 2

(***************************************************************************)
(* apps/api/core/xbrl_client.py: _latest_unit_item.  An item of a unit     *)
(* list is a record of its fields; <<>> stands for a field that is missing *)
(* or empty (the code only tests the fields for truth).                    *)
(***************************************************************************)
UpperChar(c) ==
    IF \E k \in 1..26 : LowerSeq[k] = c
    THEN UpperSeq[CHOOSE k \in 1..26 : LowerSeq[k] = c]
    ELSE c

Upper(s) == [i \in 1..Len(s) |-> UpperChar(s[i])]

NoVal == [has |-> FALSE]
Val(v) == [has |-> TRUE, num |-> TRUE, v |-> v]
BadVal == [has |-> TRUE, num |-> FALSE]

FactItem(end, filed, form, frame, val) ==
    [end |-> end, filed |-> filed, form |-> form, frame |-> frame, val |-> val]

\* lines 63-94 for a non-empty frame, f being frame.upper()
FrameRankOf(f, frame_preference) ==
    IF frame_preference = "YTD"
    THEN IF Contains(f, <<"Y", "T", "D">>) /\ Contains(f, <<"Q">>) THEN 0
         ELSE IF Contains(f, <<"Q", "T", "D">>) \/ (Contains(f, <<"Q">>) /\ Contains(f, <<"Q", "T", "D">>)) THEN 1
         ELSE IF Contains(f, <<"F", "Y">>) \/ Contains(f, <<"C", "Y">>) THEN 2
         ELSE 3
    ELSE IF frame_preference = "QTD"
    THEN IF Contains(f, <<"Q", "T", "D">>) \/ (Contains(f, <<"Q">>) /\ Contains(f, <<"Q", "T", "D">>)) THEN 0
         ELSE IF Contains(f, <<"Y", "T", "D">>) /\ Contains(f, <<"Q">>) THEN 1
         ELSE IF Contains(f, <<"F", "Y">>) \/ Contains(f, <<"C", "Y">>) THEN 2
         ELSE 3
    ELSE IF frame_preference = "FY"
    THEN IF Contains(f, <<"F", "Y">>) \/ Contains(f, <<"C", "Y">>) THEN 0
         ELSE IF Contains(f, <<"Y", "T", "D">>) /\ Contains(f, <<"Q">>) THEN 1
         ELSE IF Contains(f, <<"Q", "T", "D">>) \/ Contains(f, <<"Q">>) THEN 2
         ELSE 3
    ELSE IF Contains(f, <<"Q">>) /\ Contains(f, <<"Y", "T", "D">>) THEN 0
         ELSE IF Contains(f, <<"Q", "T", "D">>) \/ Contains(f, <<"Q">>) THEN 1
         ELSE IF Contains(f, <<"F", "Y">>) \/ Contains(f, <<"C", "Y">>) THEN 2
         ELSE 3

\* the frame preference left out of the ranking
frame_rank_any(frame, frame_preference) ==
    IF frame = <<>> THEN 3 ELSE FrameRankOf(Upper(frame), "ANY")

frame_rank(frame, frame_preference) ==
    IF frame = <<>> THEN 3 ELSE FrameRankOf(Upper(frame), frame_preference)

\* the value of a run of digits
RECURSIVE DigitsValue(_)
DigitsValue(ds) ==
    IF ds = <<>> THEN 0
    ELSE 10 * DigitsValue(SubSeq(ds, 1, Len(ds) - 1)) + DigitVal(ds[Len(ds)])

IsLeap(y) == (y % 4 = 0 /\ y % 100 # 0) \/ y % 400 = 0

DaysInMonth(y, m) ==
    IF m = 2 THEN (IF IsLeap(y) THEN 29 ELSE 28)
    ELSE IF m \in {4, 6, 9, 11} THEN 30 ELSE 31

MinDate == <<1, 1, 1>>

\* the date of year, month and day, when there is one
DateOf(y, m, d) ==
    IF y >= 1 /\ m \in 1..12 /\ d >= 1 /\ d <= DaysInMonth(y, m)
    THEN <<y, m, d>>
    ELSE MinDate

\* lines 99-105 for a text of digits and '-': datetime.fromisoformat reads
\* YYYY-MM-DD and YYYYMMDD, strptime with %Y-%m-%d also one-digit months and
\* days; anything else is datetime(1, 1, 1)
ParseDate(end) ==
    IF Len(end) = 8 /\ \A i \in 1..8 : end[i] \in Digits
    THEN DateOf(DigitsValue(SubSeq(end, 1, 4)), DigitsValue(SubSeq(end, 5, 6)),
                DigitsValue(SubSeq(end, 7, 8)))
    ELSE
    IF /\ Len(end) \in 8..10
       /\ \A i \in 1..4 : end[i] \in Digits
       /\ end[5] = "-"
       /\ \E k \in 7..8 :
             /\ k < Len(end)
             /\ end[k] = "-"
             /\ \A i \in (6..(k - 1)) \cup ((k + 1)..Len(end)) : end[i] \in Digits
    THEN DateOf(DigitsValue(SubSeq(end, 1, 4)),
                DigitsValue(SubSeq(end, 6, (CHOOSE k \in 7..8 : end[k] = "-") - 1)),
                DigitsValue(SubSeq(end, (CHOOSE k \in 7..8 : end[k] = "-") + 1,
                                   Len(end))))
    ELSE MinDate

\* line 98: item.get("end") or item.get("filed") or "0001-01-01"
RankEnd(item) ==
    IF item.end # <<>> THEN item.end
    ELSE IF item.filed # <<>> THEN item.filed
    ELSE <<"0", "0", "0", "1", "-", "0", "1", "-", "0", "1">>

\* no form type preferred
form_rank_none(item) == 1

\* lines 106-107
form_rank(item) ==
    IF Upper(item.form) \in {<<"1", "0", "-", "Q">>, <<"1", "0", "-", "K">>} THEN 0 ELSE 1

\* the form score ranked before the date
key_form_first(item, prefer_quarterly, frame_preference) ==
    <<1 - form_rank(item)>>
    \o ParseDate(RankEnd(item))
    \o <<100 - (IF prefer_quarterly THEN frame_rank(item.frame, frame_preference)
                ELSE 2)>>

\* lines 97-112: (dt, form_score, frame_score), the date as year, month, day
key(item, prefer_quarterly, frame_preference) ==
    ParseDate(RankEnd(item))
    \o <<1 - form_rank(item),
         100 - (IF prefer_quarterly THEN frame_rank(item.frame, frame_preference)
                ELSE 2)>>

\* an unstable sort: x put in front of the items with the same key
RECURSIVE InsertDescending_unstable(_, _, _, _)
InsertDescending_unstable(sorted, x, prefer_quarterly, frame_preference) ==
    IF sorted = <<>> THEN <<x>>
    ELSE IF LexLess(key(x, prefer_quarterly, frame_preference),
                    key(Head(sorted), prefer_quarterly, frame_preference))
    THEN <<Head(sorted)>>
         \o InsertDescending_unstable(Tail(sorted), x, prefer_quarterly,
                                      frame_preference)
    ELSE <<x>> \o sorted

\* x put into a list sorted by descending key, behind the items that are not
\* smaller (the sort is stable)
RECURSIVE InsertDescending(_, _, _, _)
InsertDescending(sorted, x, prefer_quarterly, frame_preference) ==
    IF sorted = <<>> THEN <<x>>
    ELSE IF LexLess(key(Head(sorted), prefer_quarterly, frame_preference),
                    key(x, prefer_quarterly, frame_preference))
    THEN <<x>> \o sorted
    ELSE <<Head(sorted)>>
         \o InsertDescending(Tail(sorted), x, prefer_quarterly, frame_preference)

\* sorted(items, key=key, reverse=True) of the first n items
RECURSIVE SortedReverse(_, _, _, _)
SortedReverse(items, n, prefer_quarterly, frame_preference) ==
    IF n = 0 THEN <<>>
    ELSE InsertDescending(
             SortedReverse(items, n - 1, prefer_quarterly, frame_preference),
             items[n], prefer_quarterly, frame_preference)

NoItem == [none |-> TRUE]

_latest_unit_item(items, prefer_quarterly, frame_preference) ==
    IF items = <<>> THEN NoItem
    ELSE [none |-> FALSE,
          item |-> SortedReverse(items, Len(items), prefer_quarterly,
                                 frame_preference)[1]]

(***************************************************************************)
(* Specification SpecLatest: _latest_unit_item applied to bounded lists of *)
(* items                                                                   *)
(***************************************************************************)
MaxItems == 2

Q2End == <<"2", "0", "2", "4", "-", "0", "6", "-", "3", "0">>
Q1End == <<"2", "0", "2", "4", "-", "0", "3", "-", "3", "1">>
FiledLater == <<"2", "0", "2", "4", "-", "0", "7", "-", "3", "0">>

\* the items the lists are made of
ItemPool ==
    {FactItem(Q2End, <<>>, <<"1", "0", "-", "Q">>, <<"C", "Y", "2", "0", "2", "4", "Q", "2", "Q", "T", "D">>, Val(200000000)),
     FactItem(Q2End, <<>>, <<"1", "0", "-", "Q">>, <<"C", "Y", "2", "0", "2", "4", "Q", "2", "Y", "T", "D">>, Val(600000000)),
     FactItem(Q2End, <<>>, <<"1", "0", "-", "Q">>, <<"C", "Y", "2", "0", "2", "4", "Q", "2">>, Val(300000000)),
     FactItem(Q2End, <<>>, <<"1", "0", "-", "Q">>, <<"C", "Y", "2", "0", "2", "4">>, Val(400000000)),
     FactItem(Q2End, <<>>, <<"1", "0", "-", "Q">>, <<>>, Val(500000000)),
     FactItem(Q2End, <<>>, <<"8", "-", "K">>, <<"C", "Y", "2", "0", "2", "4", "Q", "2", "Q", "T", "D">>, Val(700000000)),
     FactItem(Q2End, <<>>, <<>>, <<"C", "Y", "2", "0", "2", "4", "Q", "2", "Y", "T", "D">>, Val(800000000)),
     FactItem(Q2End, <<>>, <<"1", "0", "-", "q">>, <<"q", "2">>, Val(900000000)),
     FactItem(Q1End, <<>>, <<"1", "0", "-", "K">>, <<"C", "Y", "2", "0", "2", "4", "Q", "1", "Y", "T", "D">>, Val(100000000)),
     FactItem(<<>>, FiledLater, <<"8", "-", "K">>, <<>>, Val(1000000000)),
     FactItem(<<"n", "/", "a">>, FiledLater, <<"1", "0", "-", "Q">>, <<"C", "Y", "2", "0", "2", "4", "Q", "2", "Q", "T", "D">>, Val(1100000000)),
     FactItem(<<>>, <<>>, <<"1", "0", "-", "Q">>, <<"C", "Y", "2", "0", "2", "4", "Q", "2", "Y", "T", "D">>, Val(1200000000))}

FramePreferences == {"ANY", "QTD", "YTD", "FY"}

\* nothing but xbrl_client is in use
OthersIdle ==
    /\ batch = Idle
    /\ calls = Idle
    /\ manager = Idle
    /\ valuation = Idle
    /\ mappings = <<>>
    /\ citations = <<>>
    /\ fs = <<>>
    /\ loaded = <<>>
    /\ last = Idle
    /\ cite = Idle
    /\ num = Idle
    /\ single = Idle

LatestInit ==
    /\ OthersIdle
    /\ \E items \in SeqsUpTo(ItemPool, MaxItems) :
       \E prefer_quarterly \in BOOLEAN :
       \E frame_preference \in FramePreferences :
          xbrl = [pc |-> "ready", op |-> "_latest_unit_item", items |-> items,
                  prefer_quarterly |-> prefer_quarterly,
                  frame_preference |-> frame_preference]

LatestUnitItem ==
    /\ xbrl.pc = "ready"
    /\ xbrl.op = "_latest_unit_item"
    /\ xbrl' = [xbrl EXCEPT !.pc = "done"]
               @@ [result |-> _latest_unit_item(xbrl.items, xbrl.prefer_quarterly,
                                                xbrl.frame_preference)]
    /\ UNCHANGED <<mappings, citations, fs, loaded, last, cite, num, single, others>>

LatestNext == LatestUnitItem

SpecLatest == LatestInit /\ [][LatestNext]_vars

\* a call of _latest_unit_item has returned an item
Selected ==
    /\ xbrl.pc = "done"
    /\ xbrl.op = "_latest_unit_item"
    /\ ~xbrl.result.none

RankingDate(item) == ParseDate(RankEnd(item))
PreferredForm(item) == Upper(item.form) \in {<<"1", "0", "-", "Q">>, <<"1", "0", "-", "K">>}
KeyOf(i) == key(xbrl.items[i], xbrl.prefer_quarterly, xbrl.frame_preference)

\* the items of the call are tied on date and form type
TiedOnDateAndForm ==
    \A i, j \in DOMAIN xbrl.items :
        /\ RankingDate(xbrl.items[i]) = RankingDate(xbrl.items[j])
        /\ Upper(xbrl.items[i].form) = Upper(xbrl.items[j].form)

\* the kinds of frame label
IsQTD(frame) == Contains(Upper(frame), <<"Q", "T", "D">>) /\ ~Contains(Upper(frame), <<"Y", "T", "D">>)
IsYTDQ(frame) ==
    /\ Contains(Upper(frame), <<"Y", "T", "D">>)
    /\ Contains(Upper(frame), <<"Q">>)
    /\ ~Contains(Upper(frame), <<"Q", "T", "D">>)
IsGenericQ(frame) ==
    /\ Contains(Upper(frame), <<"Q">>)
    /\ ~Contains(Upper(frame), <<"Q", "T", "D">>)
    /\ ~Contains(Upper(frame), <<"Y", "T", "D">>)
IsYearOnly(frame) ==
    /\ Contains(Upper(frame), <<"F", "Y">>) \/ Contains(Upper(frame), <<"C", "Y">>)
    /\ ~Contains(Upper(frame), <<"Q">>)

\* C11: for a flow metric whose items are tied on end date and form type, in
\* whatever order they come, policy QTD selects the 'QTD' item over the
\* 'YTD'+'Q' item, and policies YTD and ANY select the 'YTD'+'Q' item over the
\* 'QTD' item.
C11_FramePolicy ==
    (/\ Selected
     /\ xbrl.prefer_quarterly
     /\ TiedOnDateAndForm
     /\ \E i \in DOMAIN xbrl.items : IsQTD(xbrl.items[i].frame)
     /\ \E i \in DOMAIN xbrl.items : IsYTDQ(xbrl.items[i].frame))
        => /\ xbrl.frame_preference = "QTD" => IsQTD(xbrl.result.item.frame)
           /\ xbrl.frame_preference \in {"YTD", "ANY"}
                  => IsYTDQ(xbrl.result.item.frame)

\* policy QTD selects the 'QTD' item although the 'YTD'+'Q' item comes first
C11_Witness ==
    /\ Selected
    /\ xbrl.prefer_quarterly
    /\ TiedOnDateAndForm
    /\ xbrl.frame_preference = "QTD"
    /\ Len(xbrl.items) = 2
    /\ IsYTDQ(xbrl.items[1].frame)
    /\ IsQTD(xbrl.items[2].frame)
    /\ xbrl.result.item = xbrl.items[2]

\* the items of the call whose ranking date no other item's exceeds
LatestItems ==
    {i \in DOMAIN xbrl.items :
        \A j \in DOMAIN xbrl.items :
            ~LexLess(RankingDate(xbrl.items[i]), RankingDate(xbrl.items[j]))}

C13_FormPreferred ==
    (Selected /\ \E i \in LatestItems : PreferredForm(xbrl.items[i]))
        => PreferredForm(xbrl.result.item)

\* a 10-Q item without frame label is returned although an 8-K item tied on the
\* date comes first and has the best frame label
C13_Witness ==
    /\ Selected
    /\ xbrl.prefer_quarterly
    /\ Len(xbrl.items) = 2
    /\ RankingDate(xbrl.items[1]) = RankingDate(xbrl.items[2])
    /\ ~PreferredForm(xbrl.items[1]) /\ PreferredForm(xbrl.items[2])
    /\ frame_rank(xbrl.items[1].frame, xbrl.frame_preference) = 0
    /\ xbrl.items[2].frame = <<>>
    /\ xbrl.result.item = xbrl.items[2]

\* C14: under policies QTD and YTD a frame label with a generic 'Q' (without
\* 'QTD') counts like a 'QTD' label: among items tied on date and form type,
\* under QTD it is selected over 'YTD'+'Q' labels and under YTD over labels that
\* are only 'FY'/'CY'.
C14_GenericQuarterTier ==
    (/\ Selected
     /\ xbrl.prefer_quarterly
     /\ TiedOnDateAndForm
     /\ \E i \in DOMAIN xbrl.items : IsGenericQ(xbrl.items[i].frame))
        => /\ (/\ xbrl.frame_preference = "QTD"
               /\ \A i \in DOMAIN xbrl.items :
                     IsGenericQ(xbrl.items[i].frame) \/ IsYTDQ(xbrl.items[i].frame))
                  => IsGenericQ(xbrl.result.item.frame)
           /\ (/\ xbrl.frame_preference = "YTD"
               /\ \A i \in DOMAIN xbrl.items :
                     IsGenericQ(xbrl.items[i].frame) \/ IsYearOnly(xbrl.items[i].frame))
                  => IsGenericQ(xbrl.result.item.frame)

\* the first of the items whose key no other item's exceeds
FirstBest ==
    CHOOSE i \in DOMAIN xbrl.items :
        /\ \A j \in DOMAIN xbrl.items : ~LexLess(KeyOf(i), KeyOf(j))
        /\ \A j \in 1..(i - 1) : LexLess(KeyOf(j), KeyOf(i))

\* C15: of several items tied on date, form score and frame score the one that
\* comes first in the input list is returned; the result is null only for an
\* empty list and otherwise an element of the list.
C15_FirstOccurrence ==
    (xbrl.pc = "done" /\ xbrl.op = "_latest_unit_item")
        => /\ xbrl.result.none <=> xbrl.items = <<>>
           /\ xbrl.items # <<>> => xbrl.result.item = xbrl.items[FirstBest]

\* two different items with the same key, the first of them returned
C15_Witness ==
    /\ Selected
    /\ xbrl.prefer_quarterly
    /\ Len(xbrl.items) = 2
    /\ KeyOf(1) = KeyOf(2)
    /\ xbrl.items[1] # xbrl.items[2]
    /\ xbrl.result.item = xbrl.items[1]

(***************************************************************************)
(* apps/api/core/xbrl_client.py: the facts parser.  A float is modelled as *)
(* an exact fraction n/d in lowest terms (d > 0); None is a record of its  *)
(* own.                                                                    *)
(***************************************************************************)
NoneValue == [none |-> TRUE]

Abs(n) == IF n < 0 THEN -n ELSE n

RECURSIVE GCD(_, _)
GCD(a, b) == IF b = 0 THEN a ELSE GCD(b, a % b)

\* the float n/d
Num(n, d) ==
    [none |-> FALSE, n |-> n \div GCD(Abs(n), d), d |-> d \div GCD(Abs(n), d)]

Zero == Num(0, 1)
Million == 1000000

FloatAdd(x, y) == Num(x.n * y.d + y.n * x.d, x.d * y.d)
FloatSub(x, y) == Num(x.n * y.d - y.n * x.d, x.d * y.d)
DivMillion(x) == Num(x.n, x.d * Million)

\* (v / 1_000_000.0) if v is not None else None
to_millions(v) == IF v.none THEN NoneValue ELSE DivMillion(v)

\* Python's `x or y` on floats and None
PyOr(x, y) == IF ~x.none /\ x.n # 0 THEN x ELSE y

\* facts.get(taxonomy, {}).get(tag): <<>> when there is none
TagData(facts, taxonomy, tag) ==
    IF taxonomy \in DOMAIN facts /\ tag \in DOMAIN facts[taxonomy]
    THEN facts[taxonomy][tag]
    ELSE <<>>

\* units.get(unit): <<>> when there is none
UnitList(units, unit) == IF unit \in DOMAIN units THEN units[unit] ELSE <<>>

NoFact == [none |-> TRUE]

RECURSIVE UnitLoop(_, _, _, _, _)
\* lines 159-165: the item chosen for a unit, or on to the next unit
UnitStep(selected, units, units_preference, k, prefer_quarterly, frame_preference) ==
    IF ~selected.none /\ selected.item.val.has /\ selected.item.val.num
    THEN [none |-> FALSE, val |-> Num(selected.item.val.v, 1),
          item |-> selected.item, unit |-> units_preference[k]]
    ELSE UnitLoop(units, units_preference, k + 1, prefer_quarterly, frame_preference)

\* lines 155-166: the loop over the preferred units, from unit k on
UnitLoop(units, units_preference, k, prefer_quarterly, frame_preference) ==
    IF k > Len(units_preference) THEN NoFact
    ELSE IF UnitList(units, units_preference[k]) = <<>>
    THEN UnitLoop(units, units_preference, k + 1, prefer_quarterly, frame_preference)
    ELSE UnitStep(_latest_unit_item(UnitList(units, units_preference[k]),
                                    prefer_quarterly, frame_preference),
                  units, units_preference, k, prefer_quarterly, frame_preference)

\* (val, item, unit), or (None, None, None)
_get_fact_with_item(facts, taxonomy, tag, units_preference, prefer_quarterly, frame_preference) ==
    IF TagData(facts, taxonomy, tag) = <<>> THEN NoFact
    ELSE UnitLoop(TagData(facts, taxonomy, tag).units, units_preference, 1,
                  prefer_quarterly, frame_preference)

\* the value of a fact alone
ValueOf(fact) == IF fact.none THEN NoneValue ELSE fact.val

\* lines 117-140: the same search, returning the value
_get_fact(facts, taxonomy, tag, units_preference, prefer_quarterly, frame_preference) ==
    IF TagData(facts, taxonomy, tag) = <<>> THEN NoneValue
    ELSE ValueOf(UnitLoop(TagData(facts, taxonomy, tag).units, units_preference, 1,
                          prefer_quarterly, frame_preference))

\* companyfacts.get("facts", {})
FactsOf(companyfacts) ==
    IF "facts" \in DOMAIN companyfacts THEN companyfacts.facts ELSE <<>>


(***************************************************************************)
(* parse_core_metrics (lines 169-215)                                      *)
(***************************************************************************)
\* lines 173-175: usd(tag, prefer_quarterly, frame_pref)
usd(facts, tag, prefer_quarterly, frame_pref) ==
    to_millions(_get_fact(facts, "us-gaap", tag, <<"USD">>, prefer_quarterly, frame_pref))

\* lines 180-181
PlainEquity(facts) ==
    PyOr(usd(facts, "StockholdersEquityIncludingPortionAttributableToNoncontrollingInterest",
             TRUE, "ANY"),
         usd(facts, "StockholdersEquity", TRUE, "ANY"))

\* line 185
PlainDebtCurrent(facts) == PyOr(usd(facts, "DebtCurrent", FALSE, "ANY"), Zero)

\* lines 186-188
PlainDebtLongterm(facts) ==
    PyOr(PyOr(usd(facts, "LongTermDebtNoncurrent", TRUE, "ANY"),
              usd(facts, "LongTermDebt", FALSE, "ANY")),
         Zero)

\* line 189
PlainTotalDebt(debt_current, debt_longterm) ==
    FloatAdd(PyOr(debt_current, Zero), PyOr(debt_longterm, Zero))

\* line 190
PlainCash(facts) ==
    PyOr(usd(facts, "CashAndCashEquivalentsAtCarryingValue", FALSE, "ANY"), Zero)

\* line 191
PlainNetDebt(total_debt, cash) ==
    IF ~total_debt.none /\ ~cash.none THEN FloatSub(total_debt, cash) ELSE NoneValue

\* lines 196-198
PlainEbitda(operating_income, dda) ==
    IF ~operating_income.none /\ ~dda.none
    THEN FloatAdd(operating_income, dda)
    ELSE NoneValue

\* lines 201-202
PlainShares(facts) ==
    PyOr(PyOr(_get_fact(facts, "dei", "EntityCommonStockSharesOutstanding",
                        <<"shares">>, TRUE, "ANY"),
              _get_fact(facts, "us-gaap", "CommonStockSharesOutstanding",
                        <<"shares">>, TRUE, "ANY")),
         NoneValue)

\* lines 178-215
PlainMetrics(facts, flow_frame_pref) ==
    [ebitda |-> PlainEbitda(usd(facts, "OperatingIncomeLoss", TRUE, flow_frame_pref),
                            usd(facts, "DepreciationDepletionAndAmortization",
                                TRUE, flow_frame_pref)),
     net_debt |-> PlainNetDebt(PlainTotalDebt(PlainDebtCurrent(facts),
                                              PlainDebtLongterm(facts)),
                               PlainCash(facts)),
     net_income |-> usd(facts, "NetIncomeLoss", TRUE, flow_frame_pref),
     shareholder_equity |-> PlainEquity(facts),
     interest_expense |-> usd(facts, "InterestExpense", TRUE, flow_frame_pref),
     total_assets |-> usd(facts, "Assets", FALSE, "ANY"),
     shares_outstanding |-> to_millions(PlainShares(facts)),
     cash |-> PlainCash(facts),
     total_debt |-> PlainTotalDebt(PlainDebtCurrent(facts), PlainDebtLongterm(facts))]

parse_core_metrics(companyfacts, flow_frame_pref) ==
    PlainMetrics(FactsOf(companyfacts), flow_frame_pref)

(***************************************************************************)
(* parse_core_metrics_with_meta (lines 217-293)                            *)
(***************************************************************************)
\* lines 221-222: usd_item(tag, prefer_quarterly)
usd_item(facts, tag, prefer_quarterly, flow_frame_pref) ==
    _get_fact_with_item(facts, "us-gaap", tag, <<"USD">>, prefer_quarterly, flow_frame_pref)

\* `if x_v is None: x_v, x_item, x_unit = ...`
IfNone(first, second) == IF first.none THEN second ELSE first

\* lines 230-232
MetaEquity(facts, flow_frame_pref) ==
    IfNone(usd_item(facts, "StockholdersEquityIncludingPortionAttributableToNoncontrollingInterest",
                    FALSE, flow_frame_pref),
           usd_item(facts, "StockholdersEquity", FALSE, flow_frame_pref))

\* lines 236-238
MetaDebtLongterm(facts, flow_frame_pref) ==
    IfNone(usd_item(facts, "LongTermDebtNoncurrent", FALSE, flow_frame_pref),
           usd_item(facts, "LongTermDebt", FALSE, flow_frame_pref))

\* td_v that leaves current debt out of the sum
MetaTotalDebtValue_longterm_only(dc, ld) ==
    IF ~dc.none \/ ~ld.none
    THEN PyOr(ValueOf(ld), Zero)
    ELSE NoneValue

\* line 239: td_v
MetaTotalDebtValue(dc, ld) ==
    IF ~dc.none \/ ~ld.none
    THEN FloatAdd(PyOr(ValueOf(dc), Zero), PyOr(ValueOf(ld), Zero))
    ELSE NoneValue

\* lines 240-241: td_item = ld_item or dc_item, td_unit = ld_unit or dc_unit
MetaTotalDebtSource(dc, ld) == IF ~ld.none THEN ld ELSE dc

\* line 244: nd_v
MetaNetDebtValue(td_v, ca) ==
    IF ~td_v.none THEN FloatSub(td_v, PyOr(ValueOf(ca), Zero)) ELSE NoneValue

\* eb_v that sums whatever is there
MetaEbitdaValue_partial(oi, da) ==
    IF ~oi.none \/ ~da.none
    THEN FloatAdd(PyOr(ValueOf(oi), Zero), PyOr(ValueOf(da), Zero))
    ELSE NoneValue

\* line 248: eb_v
MetaEbitdaValue(oi, da) ==
    IF ~oi.none /\ ~da.none THEN FloatAdd(oi.val, da.val) ELSE NoneValue

\* lines 250-252
MetaShares(facts) ==
    IfNone(_get_fact_with_item(facts, "dei", "EntityCommonStockSharesOutstanding",
                               <<"shares">>, TRUE, "ANY"),
           _get_fact_with_item(facts, "us-gaap", "CommonStockSharesOutstanding",
                               <<"shares">>, TRUE, "ANY"))

NoMeta == [none |-> TRUE]

\* lines 268-278: meta(item, unit, raw)
meta(source, unit, raw) ==
    IF source.none THEN NoMeta
    ELSE [none |-> FALSE, form |-> source.item.form, end |-> source.item.end,
          frame |-> source.item.frame, filed |-> source.item.filed,
          unit |-> unit, raw_value |-> raw]

\* the unit of a fact, for meta
UnitOf(fact) == IF fact.none THEN "" ELSE fact.unit

\* meta of a fact read directly
MetaOf(fact) == meta(fact, UnitOf(fact), ValueOf(fact))

\* lines 256-266
MetaMetrics(ni, ie, eq, ta, dc, ld, ca, oi, da, sh) ==
    [ebitda |-> to_millions(MetaEbitdaValue(oi, da)),
     net_debt |-> to_millions(MetaNetDebtValue(MetaTotalDebtValue(dc, ld), ca)),
     net_income |-> to_millions(ValueOf(ni)),
     shareholder_equity |-> to_millions(ValueOf(eq)),
     interest_expense |-> to_millions(ValueOf(ie)),
     total_assets |-> to_millions(ValueOf(ta)),
     shares_outstanding |-> to_millions(ValueOf(sh)),
     cash |-> to_millions(ValueOf(ca)),
     total_debt |-> to_millions(MetaTotalDebtValue(dc, ld))]

\* lines 280-293
MetaDetails(ni, ie, eq, ta, dc, ld, ca, oi, da, sh) ==
    [net_income |-> MetaOf(ni),
     interest_expense |-> MetaOf(ie),
     shareholder_equity |-> MetaOf(eq),
     total_assets |-> MetaOf(ta),
     debt_current |-> MetaOf(dc),
     debt_longterm |-> MetaOf(ld),
     total_debt |-> meta(MetaTotalDebtSource(dc, ld),
                         UnitOf(MetaTotalDebtSource(dc, ld)),
                         MetaTotalDebtValue(dc, ld)),
     cash |-> MetaOf(ca),
     operating_income |-> MetaOf(oi),
     dda |-> MetaOf(da),
     ebitda |-> meta(oi, "USD+USD", MetaEbitdaValue(oi, da)),
     shares_outstanding |-> MetaOf(sh)]

\* line 293: return metrics, details
MetaResult(ni, ie, eq, ta, dc, ld, ca, oi, da, sh) ==
    [metrics |-> MetaMetrics(ni, ie, eq, ta, dc, ld, ca, oi, da, sh),
     details |-> MetaDetails(ni, ie, eq, ta, dc, ld, ca, oi, da, sh)]

\* lines 219-252 read the facts
MetaParse(facts, flow_frame_pref) ==
    MetaResult(usd_item(facts, "NetIncomeLoss", TRUE, flow_frame_pref),
               usd_item(facts, "InterestExpense", TRUE, flow_frame_pref),
               MetaEquity(facts, flow_frame_pref),
               usd_item(facts, "Assets", FALSE, flow_frame_pref),
               usd_item(facts, "DebtCurrent", FALSE, flow_frame_pref),
               MetaDebtLongterm(facts, flow_frame_pref),
               usd_item(facts, "CashAndCashEquivalentsAtCarryingValue", FALSE, flow_frame_pref),
               usd_item(facts, "OperatingIncomeLoss", TRUE, flow_frame_pref),
               usd_item(facts, "DepreciationDepletionAndAmortization", TRUE, flow_frame_pref),
               MetaShares(facts))

parse_core_metrics_with_meta(companyfacts, flow_frame_pref) ==
    MetaParse(FactsOf(companyfacts), flow_frame_pref)


(***************************************************************************)
(* Specification SpecFacts: one call of parse_core_metrics or of           *)
(* parse_core_metrics_with_meta on a companyfacts document that reports at *)
(* most MaxTags tags.                                                      *)
(***************************************************************************)
MaxTags == 2

UsdTags ==
    {"NetIncomeLoss", "InterestExpense",
     "StockholdersEquityIncludingPortionAttributableToNoncontrollingInterest",
     "StockholdersEquity", "Assets", "DebtCurrent", "LongTermDebtNoncurrent",
     "LongTermDebt", "CashAndCashEquivalentsAtCarryingValue",
     "OperatingIncomeLoss", "DepreciationDepletionAndAmortization"}

\* the tags the parsers read, with the unit each is reported in
ReadTags ==
    {[taxonomy |-> "us-gaap", tag |-> t, unit |-> "USD"] : t \in UsdTags}
    \cup {[taxonomy |-> "dei", tag |-> "EntityCommonStockSharesOutstanding", unit |-> "shares"],
          [taxonomy |-> "us-gaap", tag |-> "CommonStockSharesOutstanding", unit |-> "shares"]}

\* two items of one filing and period, one per frame, and a single zero
TiedItems ==
    <<FactItem(Q2End, FiledLater, <<"1", "0", "-", "Q">>, <<"C", "Y", "2", "0", "2", "4", "Q", "2", "Q", "T", "D">>, Val(200500000)),
      FactItem(Q2End, FiledLater, <<"1", "0", "-", "Q">>, <<"C", "Y", "2", "0", "2", "4", "Q", "2", "Y", "T", "D">>, Val(600000000))>>
ZeroItems == <<FactItem(Q2End, FiledLater, <<"1", "0", "-", "Q">>, <<"C", "Y", "2", "0", "2", "4", "Q", "2">>, Val(0))>>
ItemLists == {TiedItems, ZeroItems}

\* the document that reports the tags of `reported`, each with its items
CompanyFacts(reported, items) ==
    [facts |->
        [x \in {r.taxonomy : r \in reported} |->
            [t \in {r.tag : r \in {q \in reported : q.taxonomy = x}} |->
                [units |-> [u \in {r.unit : r \in {q \in reported : q.taxonomy = x /\ q.tag = t}}
                            |-> items[CHOOSE r \in reported : r.taxonomy = x /\ r.tag = t]]]]]]

FactsInit ==
    /\ OthersIdle
    /\ \/ xbrl = [pc |-> "ready", op |-> "parse", companyfacts |-> <<>>]
       \/ \E reported \in {s \in SUBSET ReadTags : Cardinality(s) <= MaxTags} :
          \E items \in [reported -> ItemLists] :
             xbrl = [pc |-> "ready", op |-> "parse",
                     companyfacts |-> CompanyFacts(reported, items)]

ParseCoreMetrics ==
    /\ xbrl.pc = "ready"
    /\ xbrl.op = "parse"
    /\ \E flow_frame_pref \in FramePreferences :
          xbrl' = [pc |-> "done", op |-> "parse_core_metrics",
                   companyfacts |-> xbrl.companyfacts,
                   flow_frame_pref |-> flow_frame_pref,
                   metrics |-> parse_core_metrics(xbrl.companyfacts, flow_frame_pref)]
    /\ UNCHANGED <<mappings, citations, fs, loaded, last, cite, num, single, others>>

ParseCoreMetricsWithMeta ==
    /\ xbrl.pc = "ready"
    /\ xbrl.op = "parse"
    /\ \E flow_frame_pref \in FramePreferences :
          xbrl' = [pc |-> "done", op |-> "parse_core_metrics_with_meta",
                   companyfacts |-> xbrl.companyfacts,
                   flow_frame_pref |-> flow_frame_pref]
                  @@ parse_core_metrics_with_meta(xbrl.companyfacts, flow_frame_pref)
    /\ UNCHANGED <<mappings, citations, fs, loaded, last, cite, num, single, others>>

FactsNext == ParseCoreMetrics \/ ParseCoreMetricsWithMeta

SpecFacts == FactsInit /\ [][FactsNext]_vars


\* a parser has returned its snapshot
Parsed ==
    /\ xbrl.pc = "done"
    /\ xbrl.op \in {"parse_core_metrics", "parse_core_metrics_with_meta"}

\* the snapshot the parser `op` returns
Snapshot(op, companyfacts, flow_frame_pref) ==
    IF op = "parse_core_metrics"
    THEN parse_core_metrics(companyfacts, flow_frame_pref)
    ELSE parse_core_metrics_with_meta(companyfacts, flow_frame_pref).metrics

\* the same document with the frame label of every item removed
WithoutFrames(companyfacts) ==
    IF "facts" \notin DOMAIN companyfacts THEN companyfacts
    ELSE [facts |->
            [x \in DOMAIN companyfacts.facts |->
                [t \in DOMAIN companyfacts.facts[x] |->
                    [units |->
                        [u \in DOMAIN companyfacts.facts[x][t].units |->
                            [i \in DOMAIN companyfacts.facts[x][t].units[u] |->
                                [companyfacts.facts[x][t].units[u][i]
                                    EXCEPT !.frame = <<>>]]]]]]]

\* the balance-sheet fields of a snapshot
BalanceSheet(metrics) ==
    [shareholder_equity |-> metrics.shareholder_equity,
     total_assets |-> metrics.total_assets,
     total_debt |-> metrics.total_debt,
     cash |-> metrics.cash]

\* C16: the balance-sheet fields of a snapshot (shareholder equity, total
\* assets, debt, cash) are the same for the document without its frame labels
\* and for every frame preference of the caller.
C16_BalanceSheetIgnoresFrames ==
    Parsed =>
        \A flow_frame_pref \in FramePreferences :
            /\ BalanceSheet(Snapshot(xbrl.op, xbrl.companyfacts, flow_frame_pref))
               = BalanceSheet(xbrl.metrics)
            /\ BalanceSheet(Snapshot(xbrl.op, WithoutFrames(xbrl.companyfacts),
                                     flow_frame_pref))
               = BalanceSheet(xbrl.metrics)


\* the document reports the tag
Reports(companyfacts, taxonomy, tag) ==
    TagData(FactsOf(companyfacts), taxonomy, tag) # <<>>

\* the document reports a debt component
ReportsDebt(companyfacts) ==
    \E tag \in {"DebtCurrent", "LongTermDebtNoncurrent", "LongTermDebt"} :
        Reports(companyfacts, "us-gaap", tag)

\* C17: when the document reports neither current nor long-term debt, the
\* snapshot's total_debt and net_debt are null, whether or not cash is reported.
C17_NoDebtNoNetDebt ==
    (Parsed /\ ~ReportsDebt(xbrl.companyfacts)) =>
        /\ xbrl.metrics.total_debt.none
        /\ xbrl.metrics.net_debt.none


\* the raw value of current debt the parser of the call has read, or None
CurrentDebtRead ==
    IF xbrl.op = "parse_core_metrics"
    THEN _get_fact(FactsOf(xbrl.companyfacts), "us-gaap", "DebtCurrent", <<"USD">>,
                   FALSE, "ANY")
    ELSE IF xbrl.details.debt_current.none THEN NoneValue
    ELSE xbrl.details.debt_current.raw_value

\* the raw value of long-term debt the parser of the call has read, or None
LongTermDebtRead ==
    IF xbrl.op = "parse_core_metrics"
    THEN PyOr(_get_fact(FactsOf(xbrl.companyfacts), "us-gaap", "LongTermDebtNoncurrent",
                        <<"USD">>, TRUE, "ANY"),
              _get_fact(FactsOf(xbrl.companyfacts), "us-gaap", "LongTermDebt",
                        <<"USD">>, FALSE, "ANY"))
    ELSE IF xbrl.details.debt_longterm.none THEN NoneValue
    ELSE xbrl.details.debt_longterm.raw_value

\* a raw value, None counted as zero
OrZero(v) == IF v.none THEN Zero ELSE v

\* C18: when the document reports a debt component, total_debt is the sum of
\* the components read (a missing one counted as zero) divided by 1,000,000,
\* and net_debt is total_debt minus cash (missing cash counted as zero).
C18_DebtArithmetic ==
    (Parsed /\ ReportsDebt(xbrl.companyfacts)) =>
        /\ xbrl.metrics.total_debt
           = DivMillion(FloatAdd(OrZero(CurrentDebtRead), OrZero(LongTermDebtRead)))
        /\ xbrl.metrics.net_debt
           = FloatSub(xbrl.metrics.total_debt, OrZero(xbrl.metrics.cash))

\* a debt component and cash are reported with values other than zero
C18_Witness ==
    /\ Parsed
    /\ ReportsDebt(xbrl.companyfacts)
    /\ Reports(xbrl.companyfacts, "us-gaap", "CashAndCashEquivalentsAtCarryingValue")
    /\ ~xbrl.metrics.cash.none
    /\ xbrl.metrics.cash # Zero
    /\ xbrl.metrics.total_debt # Zero
    /\ xbrl.metrics.net_debt = Zero


\* the value in millions the flow tag gives under the call's frame preference
FlowRead(tag) ==
    to_millions(_get_fact(FactsOf(xbrl.companyfacts), "us-gaap", tag, <<"USD">>,
                          TRUE, xbrl.flow_frame_pref))

\* C19: ebitda is operating income plus depreciation and amortization when
\* both are read, and null when either is missing.
C19_EbitdaNeedsBoth ==
    Parsed =>
        xbrl.metrics.ebitda
        = (IF /\ ~FlowRead("OperatingIncomeLoss").none
              /\ ~FlowRead("DepreciationDepletionAndAmortization").none
           THEN FloatAdd(FlowRead("OperatingIncomeLoss"),
                         FlowRead("DepreciationDepletionAndAmortization"))
           ELSE NoneValue)

\* both are reported and ebitda is their sum, neither operand being zero
C19_Witness ==
    /\ Parsed
    /\ Reports(xbrl.companyfacts, "us-gaap", "OperatingIncomeLoss")
    /\ Reports(xbrl.companyfacts, "us-gaap", "DepreciationDepletionAndAmortization")
    /\ ~xbrl.metrics.ebitda.none
    /\ xbrl.metrics.ebitda # Zero
    /\ xbrl.metrics.ebitda # FlowRead("OperatingIncomeLoss")


\* the values, in millions, of the items the document reports for the tag
ReportedValues(companyfacts, taxonomy, tag, unit) ==
    {DivMillion(Num(UnitList(TagData(FactsOf(companyfacts), taxonomy, tag).units,
                             unit)[i].val.v, 1)) :
        i \in DOMAIN UnitList(TagData(FactsOf(companyfacts), taxonomy, tag).units, unit)}

\* the field is a value of the first tag when the document reports that tag,
\* and a value of the second tag when it reports the second alone
FromFirstTag(field, taxonomy1, tag1, taxonomy2, tag2, unit) ==
    /\ Reports(xbrl.companyfacts, taxonomy1, tag1) =>
          field \in ReportedValues(xbrl.companyfacts, taxonomy1, tag1, unit)
    /\ (~Reports(xbrl.companyfacts, taxonomy1, tag1)
        /\ Reports(xbrl.companyfacts, taxonomy2, tag2)) =>
          field \in ReportedValues(xbrl.companyfacts, taxonomy2, tag2, unit)

\* C20: shareholder equity, long-term debt and shares outstanding take their
\* value from the first tag of their chain that the document reports, whatever
\* that value is, and from the later tag only when the first is not reported.
\* (Long-term debt is read off total_debt of documents without current debt.)
C20_FirstTagWins ==
    Parsed =>
        /\ FromFirstTag(xbrl.metrics.shareholder_equity, "us-gaap",
                        "StockholdersEquityIncludingPortionAttributableToNoncontrollingInterest",
                        "us-gaap", "StockholdersEquity", "USD")
        /\ ~Reports(xbrl.companyfacts, "us-gaap", "DebtCurrent") =>
              FromFirstTag(xbrl.metrics.total_debt, "us-gaap", "LongTermDebtNoncurrent",
                           "us-gaap", "LongTermDebt", "USD")
        /\ FromFirstTag(xbrl.metrics.shares_outstanding, "dei",
                        "EntityCommonStockSharesOutstanding",
                        "us-gaap", "CommonStockSharesOutstanding", "shares")


MetricKeys ==
    {"ebitda", "net_debt", "net_income", "shareholder_equity", "interest_expense",
     "total_assets", "shares_outstanding", "cash", "total_debt"}

\* details holds a provenance entry under the key
HasProvenance(details, k) == k \in DOMAIN details /\ ~details[k].none

\* the call of parse_core_metrics_with_meta has returned
ParsedWithMeta == xbrl.pc = "done" /\ xbrl.op = "parse_core_metrics_with_meta"

\* C21: parse_core_metrics_with_meta returns a provenance entry for exactly
\* the metric keys whose value is not null, net_debt, total_debt and ebitda
\* included.
C21_ProvenanceIffValue ==
    ParsedWithMeta =>
        \A k \in MetricKeys :
            HasProvenance(xbrl.details, k) <=> ~xbrl.metrics[k].none


\* C30: for the document and frame preference of the call, parse_core_metrics
\* and parse_core_metrics_with_meta return the same value, or both null, under
\* every metric key.
C30_ParsersAgree ==
    Parsed =>
        \A k \in MetricKeys :
            Snapshot("parse_core_metrics", xbrl.companyfacts, xbrl.flow_frame_pref)[k]
            = Snapshot("parse_core_metrics_with_meta", xbrl.companyfacts,
                       xbrl.flow_frame_pref)[k]


\* C26: the span of a citation locates the match inside the preview:
\* text_preview[span.start:span.end] is the matched text text[start:end], and
\* the span is as long as the match.
C26_SpanLocatesMatch ==
    cite.pc = "done" =>
        /\ PySlice(cite.citation.text_preview, cite.citation.span[1],
                   cite.citation.span[2])
           = PySlice(cite.text, cite.start_pos, cite.end_pos)
        /\ cite.citation.span[2] - cite.citation.span[1]
           = cite.end_pos - cite.start_pos


\* float() of group 1 of the match without '$' and ',', failing when the
\* pattern has no group, the group took no part in the match, or float() fails
GroupNumber(content, pattern, match) ==
    IF pattern.groups > 0 /\ match.g.set
    THEN ParseFloat(RemoveChars(PySlice(content, match.g.s, match.g.e), {"$", ","}))
    ELSE [ok |-> FALSE]

\* the number the match stands for: that of group 1, else that of the scan of
\* the whole matched text
NumberOfMatch(group, match_text) ==
    IF group.ok THEN [some |-> TRUE, val |-> group.val]
    ELSE _extract_numeric_value(match_text)

\* the result carries the number, scaled, with a citation, or nothing at all
CarriesNumber(result, number, match_text) ==
    IF number.some
    THEN /\ result.some
         /\ result.value = DecMul(number.val, _infer_scale_multiplier(match_text))
         /\ "citation" \in DOMAIN result
    ELSE /\ ~result.some
         /\ "citation" \notin DOMAIN result

\* C25: for a pattern that matches, the number is parsed from group 1 with
\* '$' and ',' removed when the pattern has a capture group, the whole matched
\* text is scanned when that fails or when there is no group, and without a
\* number there is neither value nor citation.
C25_GroupThenScan ==
    (single.pc = "done" /\ single.pattern.compiles /\ SingleMatch.matched) =>
        CarriesNumber(single.result,
                      NumberOfMatch(GroupNumber(single.content, single.pattern,
                                                SingleMatch),
                                    SingleMatchText),
                      SingleMatchText)


(***************************************************************************)
(* CitationManager (cite.py lines 32-52).  Citation objects live in a heap *)
(* and the dict holds references to them, as Python's does.                *)
(***************************************************************************)
NoRef == [none |-> TRUE]

\* self._citations[kpi_key] = citation, unless the key is already there
add_citation_keep_first(_citations, kpi_key, citation) ==
    IF kpi_key \in DOMAIN _citations THEN _citations
    ELSE SetItem(_citations, kpi_key, citation)

\* line 40: self._citations[kpi_key] = citation
add_citation(_citations, kpi_key, citation) == SetItem(_citations, kpi_key, citation)

\* line 44: self._citations.get(kpi_key)
get_citation(_citations, kpi_key) ==
    IF kpi_key \in DOMAIN _citations
    THEN [none |-> FALSE, ref |-> _citations[kpi_key]]
    ELSE NoRef

\* line 48: self._citations.copy()
get_all_citations(_citations) == _citations

\* line 52: self._citations.clear()
clear(_citations) == <<>>

\* obj.page = page on a Citation: pydantic models accept assignment
SetPage(heap, ref, page) == [heap EXCEPT ![ref].page = page]

(***************************************************************************)
(* Specification SpecManager: a new CitationManager, and a caller that     *)
(* adds citations, reads them, clears the manager and assigns the page of  *)
(* an object it got, at most MaxOps operations in all.                     *)
(***************************************************************************)
MaxOps == 4

CitationKeys == {"EBITDA", "FFO"}
Pages == {1, 999}

\* the citations a caller constructs
NewCitations ==
    {Citation(<<"t", "e", "s", "t", ".", "p", "d", "f">>, 1, <<0, 10>>, <<"O", "r", "i", "g", "i", "n", "a", "l", " ", "t", "e", "x", "t">>),
     Citation(<<"d", "o", "c", "2", ".", "p", "d", "f">>, 2, <<20, 30>>, <<"T", "e", "x", "t", " ", "2">>)}

ManagerInit ==
    /\ mappings = <<>>
    /\ fs = <<>>
    /\ loaded = <<>>
    /\ last = Idle
    /\ cite = Idle
    /\ num = Idle
    /\ single = Idle
    /\ xbrl = Idle
    /\ batch = Idle
    /\ calls = Idle
    /\ valuation = Idle
    /\ citations = <<>>
    /\ manager = [pc |-> "open", heap |-> <<>>, held |-> {}, log |-> <<>>,
                  ret |-> [op |-> "__init__"]]

\* the caller constructs a Citation and adds it under the key
AddCitation(kpi_key, citation) ==
    /\ manager.pc = "open"
    /\ Len(manager.log) < MaxOps
    /\ citations' = add_citation(citations, kpi_key, Len(manager.heap) + 1)
    /\ manager' = [manager EXCEPT
                     !.heap = Append(@, citation),
                     !.log = Append(@, [op |-> "add_citation", key |-> kpi_key,
                                        ref |-> Len(manager.heap) + 1,
                                        citation |-> citation]),
                     !.ret = [op |-> "add_citation"]]
    /\ UNCHANGED <<mappings, fs, loaded, last, cite, num, single, xbrl, batch,
                   calls, valuation>>

\* the caller keeps what get_citation returns
GetCitation(kpi_key) ==
    /\ manager.pc = "open"
    /\ Len(manager.log) < MaxOps
    /\ manager' = [manager EXCEPT
                     !.held = IF get_citation(citations, kpi_key).none THEN @
                              ELSE @ \cup {get_citation(citations, kpi_key).ref},
                     !.log = Append(@, [op |-> "get_citation", key |-> kpi_key]),
                     !.ret = [op |-> "get_citation", key |-> kpi_key,
                              result |-> get_citation(citations, kpi_key)]]
    /\ UNCHANGED <<mappings, citations, fs, loaded, last, cite, num, single, xbrl,
                   batch, calls, valuation>>

GetAllCitations ==
    /\ manager.pc = "open"
    /\ Len(manager.log) < MaxOps
    /\ manager' = [manager EXCEPT
                     !.log = Append(@, [op |-> "get_all_citations"]),
                     !.ret = [op |-> "get_all_citations",
                              result |-> get_all_citations(citations)]]
    /\ UNCHANGED <<mappings, citations, fs, loaded, last, cite, num, single, xbrl,
                   batch, calls, valuation>>

Clear ==
    /\ manager.pc = "open"
    /\ Len(manager.log) < MaxOps
    /\ citations' = clear(citations)
    /\ manager' = [manager EXCEPT
                     !.log = Append(@, [op |-> "clear"]),
                     !.ret = [op |-> "clear"]]
    /\ UNCHANGED <<mappings, fs, loaded, last, cite, num, single, xbrl, batch,
                   calls, valuation>>

\* the caller assigns the page of an object it got from get_citation
AssignPage(ref, page) ==
    /\ manager.pc = "open"
    /\ Len(manager.log) < MaxOps
    /\ ref \in manager.held
    /\ manager' = [manager EXCEPT
                     !.heap = SetPage(@, ref, page),
                     !.log = Append(@, [op |-> "page", ref |-> ref]),
                     !.ret = [op |-> "page"]]
    /\ UNCHANGED <<mappings, citations, fs, loaded, last, cite, num, single, xbrl,
                   batch, calls, valuation>>

ManagerNext ==
    \/ \E kpi_key \in CitationKeys : \E citation \in NewCitations :
          AddCitation(kpi_key, citation)
    \/ \E kpi_key \in CitationKeys : GetCitation(kpi_key)
    \/ GetAllCitations
    \/ Clear
    \/ \E ref \in 1..MaxOps : \E page \in Pages : AssignPage(ref, page)

SpecManager == ManagerInit /\ [][ManagerNext]_vars


RECURSIVE LatestAdd(_, _, _)
\* the latest add_citation under the key among the first n operations, unless
\* a clear came after it
LatestAdd(log, n, kpi_key) ==
    IF n = 0 \/ log[n].op = "clear" THEN NoRef
    ELSE IF log[n].op = "add_citation" /\ log[n].key = kpi_key
    THEN [none |-> FALSE, ref |-> log[n].ref, citation |-> log[n].citation]
    ELSE LatestAdd(log, n - 1, kpi_key)

\* the object most recently added under the key since the last clear
Added(kpi_key) == LatestAdd(manager.log, Len(manager.log), kpi_key)

\* C28: get_citation(k) returns the citation most recently added under k since
\* the last clear, and null if there is none; get_all_citations holds exactly
\* those keys; it is empty for a new manager and right after clear.
C28_LatestSinceClear ==
    manager.pc = "open" =>
        /\ manager.ret.op = "get_citation" =>
              IF Added(manager.ret.key).none THEN manager.ret.result.none
              ELSE /\ ~manager.ret.result.none
                   /\ manager.ret.result.ref = Added(manager.ret.key).ref
        /\ \A kpi_key \in CitationKeys :
              IF Added(kpi_key).none
              THEN kpi_key \notin DOMAIN get_all_citations(citations)
              ELSE /\ kpi_key \in DOMAIN get_all_citations(citations)
                   /\ get_all_citations(citations)[kpi_key] = Added(kpi_key).ref
        /\ DOMAIN get_all_citations(citations) \subseteq CitationKeys
        /\ manager.ret.op = "get_all_citations" =>
              manager.ret.result = get_all_citations(citations)
        /\ manager.ret.op \in {"__init__", "clear"} =>
              get_all_citations(citations) = <<>>

\* a key was added twice and get_citation returns the second object
C28_Witness ==
    /\ manager.pc = "open"
    /\ manager.ret.op = "get_citation"
    /\ ~manager.ret.result.none
    /\ \E i \in DOMAIN manager.log :
          /\ manager.log[i].op = "add_citation"
          /\ manager.log[i].key = manager.ret.key
          /\ manager.log[i].ref < manager.ret.result.ref

\* C23: what get_citation returns has the field values the citation was
\* added with, whatever the caller did to objects it got from get_citation
\* before.
C23_StoredFieldsKept ==
    (manager.pc = "open" /\ manager.ret.op = "get_citation"
     /\ ~manager.ret.result.none) =>
        manager.heap[manager.ret.result.ref] = Added(manager.ret.key).citation


(***************************************************************************)
(* extract_kpis_from_filings (extract.py lines 374-407)                    *)
(***************************************************************************)
\* the characters of a ticker symbol
TickerChars(ticker) ==
    IF ticker = "PPL" THEN <<"P", "P", "L">> ELSE IF ticker = "XOM" THEN <<"X", "O", "M">> ELSE <<>>

\* the name matches the glob pattern f"{ticker.lower()}_*.txt"
GlobMatches(name, ticker) ==
    /\ Len(name) >= Len(TickerChars(ticker)) + 5
    /\ SubSeq(name, 1, Len(TickerChars(ticker)) + 1)
       = Lower(TickerChars(ticker)) \o <<"_">>
    /\ SubSeq(name, Len(name) - 3, Len(name)) = <<".", "t", "x", "t">>

\* line 395: list(filings_dir.glob(...)), in the order the directory lists
Glob(listing, ticker) == SelectSeq(listing, LAMBDA name : GlobMatches(name, ticker))

\* dict.update that keeps the entries it already has
DictUpdate_keep_first(d, other) ==
    [k \in DOMAIN d \cup DOMAIN other |-> IF k \in DOMAIN d THEN d[k] ELSE other[k]]

\* line 402: all_kpis.update(file_kpis)
DictUpdate(d, other) ==
    [k \in DOMAIN d \cup DOMAIN other |-> IF k \in DOMAIN other THEN other[k] ELSE d[k]]

\* a failing file ends the batch with what was collected so far
AfterFile_abort(b, outcome) ==
    IF outcome.kind = "return"
    THEN [b EXCEPT !.i = @ + 1, !.all_kpis = DictUpdate(@, outcome.kpis),
                   !.processed = Append(@, b.ticker_files[b.i])]
    ELSE [b EXCEPT !.i = Len(b.ticker_files) + 1,
                   !.processed = Append(@, b.ticker_files[b.i])]

\* lines 397-405: one pass of the loop, given the outcome of extract_from_file
AfterFile(b, outcome) ==
    IF outcome.kind = "return"
    THEN [b EXCEPT !.i = @ + 1, !.all_kpis = DictUpdate(@, outcome.kpis),
                   !.processed = Append(@, b.ticker_files[b.i])]
    ELSE [b EXCEPT !.i = @ + 1,
                   !.processed = Append(@, b.ticker_files[b.i])]

(***************************************************************************)
(* Specification SpecBatch: extract_kpis_from_filings on a directory of at *)
(* most MaxFiles files, listed in any order, some of which cannot be read. *)
(***************************************************************************)
MaxFiles == 2

BatchNames == {<<"p", "p", "l", "_", "q", "1", ".", "t", "x", "t">>, <<"p", "p", "l", "_", "q", "2", ".", "t", "x", "t">>, <<"x", "o", "m", "_", "q", "1", ".", "t", "x", "t">>}

BatchFilings ==
    {<<"E", "B", "I", "T", "D", "A", " ", "$", "3", ",", "4", "5", "0", " ", "m", "i", "l", "l", "i", "o", "n", "\n", "A", "d", "j", "u", "s", "t", "e", "d", " ", "E", "B", "I", "T", "D", "A", " ", "4", ",", "2", "0", "0", "\n">>,
     <<"A", "d", "j", "u", "s", "t", "e", "d", " ", "E", "B", "I", "T", "D", "A", " ", "4", ",", "2", "0", "0", "\n", "F", "F", "O", " ", "2", ",", "8", "9", "0", "\n">>,
     <<>>}

BatchConfig ==
    <<KpiConfig("EBITDA", <<PatEbitda>>, "CAD millions", <<>>),
      KpiConfig("FFO", <<PatFfoLine>>, "CAD millions", <<>>)>>

\* the orderings of the subsets of S with at most n elements
Listings(S, n) ==
    {s \in SeqsUpTo(S, n) : \A i, j \in DOMAIN s : i # j => s[i] # s[j]}

BatchInit ==
    /\ citations = <<>>
    /\ last = Idle
    /\ cite = Idle
    /\ num = Idle
    /\ single = Idle
    /\ xbrl = Idle
    /\ calls = Idle
    /\ manager = Idle
    /\ valuation = Idle
    /\ loaded = ("PPL" :> BatchConfig)
    /\ mappings = <<>>
    /\ \E listing \in Listings(BatchNames, MaxFiles) :
       \E readable \in SUBSET {listing[i] : i \in DOMAIN listing} :
       \E ticker \in Tickers :
          /\ fs \in [readable -> BatchFilings]
          /\ batch = [pc |-> "ready", listing |-> listing, ticker |-> ticker]

\* lines 390-395: the extractor is built and the directory is globbed
BatchStart ==
    /\ batch.pc = "ready"
    /\ mappings' = loaded
    /\ batch' = [pc |-> "loop", listing |-> batch.listing, ticker |-> batch.ticker,
                 ticker_files |-> Glob(batch.listing, batch.ticker), i |-> 1,
                 all_kpis |-> <<>>, processed |-> <<>>]
    /\ UNCHANGED <<citations, fs, loaded, last, cite, num, single, xbrl, calls,
                   manager, valuation>>

\* lines 397-405: the next file is extracted and merged, or its error printed
BatchFile ==
    /\ batch.pc = "loop"
    /\ batch.i <= Len(batch.ticker_files)
    /\ batch' = AfterFile(batch, extract_from_file(mappings, fs,
                                                   batch.ticker_files[batch.i],
                                                   batch.ticker))
    /\ mappings' = mappings_after_extract(mappings, fs, batch.ticker_files[batch.i],
                                          batch.ticker)
    /\ UNCHANGED <<citations, fs, loaded, last, cite, num, single, xbrl, calls,
                   manager, valuation>>

\* line 407: return all_kpis
BatchReturn ==
    /\ batch.pc = "loop"
    /\ batch.i > Len(batch.ticker_files)
    /\ batch' = [batch EXCEPT !.pc = "done"] @@ [result |-> batch.all_kpis]
    /\ UNCHANGED <<mappings, citations, fs, loaded, last, cite, num, single, xbrl,
                   calls, manager, valuation>>

BatchNext == BatchStart \/ BatchFile \/ BatchReturn

SpecBatch == BatchInit /\ [][BatchNext]_vars


\* the batch call has returned
BatchDone == batch.pc = "done"

\* what extract_from_file makes of the j-th file of the glob
FileOutcome(j) ==
    extract_from_file(mappings, fs, batch.ticker_files[j], batch.ticker)

\* the j-th file yields the KPI
FileYields(j, kpi_name) ==
    /\ FileOutcome(j).kind = "return"
    /\ kpi_name \in DOMAIN FileOutcome(j).kpis

KpiNames == {"EBITDA", "FFO"}

\* C22: for each KPI name the returned entry is that of the last processed
\* file that yielded the KPI, also when only an earlier file yielded it; a
\* KPI that no file yielded is not returned.
C22_LastWriteWins ==
    BatchDone =>
        /\ DOMAIN batch.result \subseteq KpiNames
        /\ \A kpi_name \in KpiNames :
              /\ kpi_name \in DOMAIN batch.result
                 <=> \E j \in DOMAIN batch.ticker_files : FileYields(j, kpi_name)
              /\ \A j \in DOMAIN batch.ticker_files :
                    (/\ FileYields(j, kpi_name)
                     /\ \A l \in DOMAIN batch.ticker_files :
                           l > j => ~FileYields(l, kpi_name))
                    => batch.result[kpi_name] = FileOutcome(j).kpis[kpi_name]

\* two files yield EBITDA with different entries, the first alone yields FFO
C22_Witness ==
    /\ BatchDone
    /\ Len(batch.ticker_files) = 2
    /\ FileYields(1, "EBITDA")
    /\ FileYields(2, "EBITDA")
    /\ FileOutcome(1).kpis["EBITDA"].value # FileOutcome(2).kpis["EBITDA"].value
    /\ FileYields(1, "FFO")
    /\ ~FileYields(2, "FFO")
    /\ "FFO" \in DOMAIN batch.result

\* C27: a file that fails does not end the batch: every file of the glob is
\* processed, in order, and the KPIs of the files that succeeded are returned.
C27_FailureIsolated ==
    BatchDone =>
        /\ batch.processed = batch.ticker_files
        /\ \A j \in DOMAIN batch.ticker_files :
              FileOutcome(j).kind = "return" =>
                  DOMAIN FileOutcome(j).kpis \subseteq DOMAIN batch.result

\* an unreadable file is followed by a file whose KPIs are returned
C27_Witness ==
    /\ BatchDone
    /\ Len(batch.ticker_files) = 2
    /\ FileOutcome(1).kind = "raise"
    /\ FileOutcome(1).exc = "FileNotFoundError"
    /\ FileYields(2, "EBITDA")
    /\ "EBITDA" \in DOMAIN batch.result


(***************************************************************************)
(* Concurrent extract_from_file calls on one KPIExtractor.  A call is      *)
(* split where another thread may run in between: after the file is read, *)
(* after the ticker is looked up, and after each KPI of the loop.          *)
(***************************************************************************)
\* config.pop('patterns', []) in place of config.get('patterns', []), for KPI k
mappings_after_kpi_popped(m, ticker, k) ==
    [m EXCEPT ![ticker] = [@ EXCEPT ![k] = [@ EXCEPT !.patterns = <<>>]]]

\* self.mappings after one pass of the KPI loop: lines 177-180 only read it
mappings_after_kpi(m, ticker, k) == m

\* line 166: the call has tried to read its file
CallAfterRead(call, read) ==
    IF read.raised
    THEN [call EXCEPT !.pc = "done"]
         @@ [outcome |-> [kind |-> "raise", exc |-> read.exc, msg |-> read.msg]]
    ELSE [call EXCEPT !.pc = "read"] @@ [content |-> read.content]

\* lines 169-174: extracted_kpis = {} and the ticker is looked up
CallAfterLookup(call, tm) ==
    IF tm.raised
    THEN [call EXCEPT !.pc = "done"]
         @@ [outcome |-> [kind |-> "raise", exc |-> tm.exc, msg |-> tm.msg]]
    ELSE [call EXCEPT !.pc = "loop"] @@ [k |-> 1, extracted_kpis |-> <<>>]

\* lines 176-226 for the KPI the call is at, st being the outcome of its
\* pattern loop
CallAfterKpi(call, st, config) ==
    IF st.raised
    THEN [call EXCEPT !.pc = "done"]
         @@ [outcome |-> [kind |-> "raise", exc |-> st.exc, msg |-> "pattern"]]
    ELSE [call EXCEPT
            !.k = @ + 1,
            !.extracted_kpis = UseFallback(Accepted(@, st, config), st, config)]

\* line 228: return extracted_kpis
CallAfterLoop(call) ==
    [call EXCEPT !.pc = "done"]
    @@ [outcome |-> [kind |-> "return", kpis |-> call.extracted_kpis]]

\* another call is between its first and its last step
OtherInFlight(c) ==
    \E o \in DOMAIN calls.of : o # c /\ calls.of[o].pc \in {"read", "loop"}

\* the calls after call c took a step to `next`
Stepped(c, next) ==
    [calls EXCEPT !.of[c] = [next EXCEPT !.overlapped = @ \/ OtherInFlight(c)]]

(***************************************************************************)
(* Specification SpecCalls: at most MaxCalls extract_from_file calls on    *)
(* one extractor, their steps interleaved in any order.                    *)
(***************************************************************************)
MaxCalls == 2

CallInputs ==
    {[file_path |-> <<"p", "p", "l", "_", "q", "1", ".", "t", "x", "t">>, ticker |-> "PPL"],
     [file_path |-> <<"p", "p", "l", "_", "q", "2", ".", "t", "x", "t">>, ticker |-> "PPL"],
     [file_path |-> <<"p", "p", "l", "_", "q", "1", ".", "t", "x", "t">>, ticker |-> "XOM"],
     [file_path |-> <<"p", "p", "l", "_", "q", "3", ".", "t", "x", "t">>, ticker |-> "PPL"]}

CallsInit ==
    /\ citations = <<>>
    /\ last = Idle
    /\ cite = Idle
    /\ num = Idle
    /\ single = Idle
    /\ xbrl = Idle
    /\ batch = Idle
    /\ manager = Idle
    /\ valuation = Idle
    /\ loaded = ("PPL" :> BatchConfig)
    /\ mappings = loaded
    /\ fs = (<<"p", "p", "l", "_", "q", "1", ".", "t", "x", "t">> :> <<"A", "d", "j", "u", "s", "t", "e", "d", " ", "E", "B", "I", "T", "D", "A", " ", "4", ",", "2", "0", "0", "\n", "F", "F", "O", " ", "2", ",", "8", "9", "0", "\n">>)
            @@ (<<"p", "p", "l", "_", "q", "2", ".", "t", "x", "t">> :> <<"E", "B", "I", "T", "D", "A", " ", "$", "3", ",", "4", "5", "0", " ", "m", "i", "l", "l", "i", "o", "n", "\n", "A", "d", "j", "u", "s", "t", "e", "d", " ", "E", "B", "I", "T", "D", "A", " ", "4", ",", "2", "0", "0", "\n">>)
    /\ \E n \in 1..MaxCalls :
       \E inputs \in [1..n -> CallInputs] :
          calls = [pc |-> "open",
                   of |-> [c \in 1..n |->
                              [pc |-> "start", file_path |-> inputs[c].file_path,
                               ticker |-> inputs[c].ticker, overlapped |-> FALSE]]]

CallRead(c) ==
    /\ calls.of[c].pc = "start"
    /\ calls' = Stepped(c, CallAfterRead(calls.of[c],
                                         _read_file_content(fs, calls.of[c].file_path)))
    /\ UNCHANGED <<mappings, citations, fs, loaded, last, cite, num, single, xbrl,
                   batch, manager, valuation>>

CallLookup(c) ==
    /\ calls.of[c].pc = "read"
    /\ calls' = Stepped(c, CallAfterLookup(calls.of[c],
                                           TickerMappings(mappings, calls.of[c].ticker)))
    /\ UNCHANGED <<mappings, citations, fs, loaded, last, cite, num, single, xbrl,
                   batch, manager, valuation>>

CallKpi(c) ==
    /\ calls.of[c].pc = "loop"
    /\ calls.of[c].k <= Len(mappings[calls.of[c].ticker])
    /\ calls' = Stepped(c, CallAfterKpi(
                    calls.of[c],
                    PatternLoop(LoopStart, calls.of[c].content,
                                mappings[calls.of[c].ticker][calls.of[c].k].patterns, 1,
                                calls.of[c].file_path,
                                mappings[calls.of[c].ticker][calls.of[c].k]),
                    mappings[calls.of[c].ticker][calls.of[c].k]))
    /\ mappings' = mappings_after_kpi(mappings, calls.of[c].ticker, calls.of[c].k)
    /\ UNCHANGED <<citations, fs, loaded, last, cite, num, single, xbrl, batch,
                   manager, valuation>>

CallReturn(c) ==
    /\ calls.of[c].pc = "loop"
    /\ calls.of[c].k > Len(mappings[calls.of[c].ticker])
    /\ calls' = Stepped(c, CallAfterLoop(calls.of[c]))
    /\ UNCHANGED <<mappings, citations, fs, loaded, last, cite, num, single, xbrl,
                   batch, manager, valuation>>

CallsNext ==
    \E c \in DOMAIN calls.of :
        CallRead(c) \/ CallLookup(c) \/ CallKpi(c) \/ CallReturn(c)

SpecCalls == CallsInit /\ [][CallsNext]_vars

\* C29: concurrent extract_from_file calls leave the extractor's mappings and
\* citation manager as they were, and each call that has finished has the
\* outcome the same call has when run alone.
C29_NoInterference ==
    calls.pc = "open" =>
        /\ mappings = loaded
        /\ citations = <<>>
        /\ \A c \in DOMAIN calls.of :
              calls.of[c].pc = "done" =>
                  calls.of[c].outcome
                  = extract_from_file(loaded, fs, calls.of[c].file_path, calls.of[c].ticker)

\* a call that ran while another was in flight returns its KPIs
C29_Witness ==
    /\ calls.pc = "open"
    /\ \E c \in DOMAIN calls.of :
          /\ calls.of[c].pc = "done"
          /\ calls.of[c].overlapped
          /\ calls.of[c].outcome.kind = "return"
          /\ DOMAIN calls.of[c].outcome.kpis = {"EBITDA", "FFO"}
          /\ \E o \in DOMAIN calls.of :
                /\ o # c
                /\ calls.of[o].pc = "loop"
                /\ calls.of[o].k = 2


(***************************************************************************)
(* ValuationEngine (src/core/valuation.py).  Floats are exact fractions    *)
(* n/d as above; float('inf') is the fraction 1/0.                         *)
(***************************************************************************)
Inf == [none |-> FALSE, n |-> 1, d |-> 0]

FloatOne == Num(1, 1)

\* x * y, cancelling across before multiplying
FloatMul(x, y) ==
    Num((x.n \div GCD(Abs(x.n), y.d)) * (y.n \div GCD(Abs(y.n), x.d)),
        (x.d \div GCD(Abs(y.n), x.d)) * (y.d \div GCD(Abs(x.n), y.d)))

\* x / y for y > 0
FloatDiv(x, y) == FloatMul(x, [none |-> FALSE, n |-> y.d, d |-> y.n])

\* inf + x is inf
InfAdd(x, y) == IF x = Inf THEN Inf ELSE FloatAdd(x, y)

\* inf / y is inf for y > 0 and -inf for y < 0
InfDiv(x, y) ==
    IF x # Inf THEN
        IF y.n > 0 THEN FloatDiv(x, y)
        ELSE FloatMul(x, [none |-> FALSE, n |-> -y.d, d |-> -y.n])
    ELSE IF y.n > 0 THEN Inf ELSE [Inf EXCEPT !.n = -1]

\* inputs.risk_free_rate + (inputs.beta * inputs.market_risk_premium)
CostOfEquity(inputs) ==
    FloatAdd(inputs.risk_free_rate, FloatMul(inputs.beta, inputs.market_risk_premium))

\* inputs.cost_of_debt * (1 - inputs.tax_rate)
CostOfDebtAfterTax(inputs) ==
    FloatMul(inputs.cost_of_debt, FloatSub(FloatOne, inputs.tax_rate))

calculate_wacc(inputs) ==
    FloatAdd(FloatMul(inputs.equity_weight, CostOfEquity(inputs)),
             FloatMul(inputs.debt_weight, CostOfDebtAfterTax(inputs)))

\* nopat * (1 - reinvestment_rate), nopat being normalized_ebit * (1 - tax_rate)
FreeCashFlow(inputs) ==
    FloatMul(FloatMul(FloatSub(inputs.ebitda, inputs.maintenance_capex),
                      FloatSub(FloatOne, inputs.tax_rate)),
             FloatSub(FloatOne, inputs.reinvestment_rate))

calculate_epv(inputs) ==
    IF calculate_wacc(inputs).n <= 0
    THEN Inf
    ELSE FloatDiv(FreeCashFlow(inputs), calculate_wacc(inputs))

\* scenario.rate_bps_change / 10000
RateChange(scenario) == Num(scenario.rate_bps_change, 10000)

\* ebitda * (1 + throughput_pct_change / 100) * (1 + ebitda_uplift)
ScenarioEbitda(ebitda, scenario) ==
    FloatMul(FloatMul(ebitda,
                      FloatAdd(FloatOne, FloatMul(scenario.throughput_pct_change,
                                             Num(1, 100)))),
             FloatAdd(FloatOne, scenario.ebitda_uplift))

\* the adjusted copy; `inputs` itself is left as it is
apply_scenario(inputs, scenario) ==
    [inputs EXCEPT
        !.risk_free_rate = FloatAdd(@, RateChange(scenario)),
        !.cost_of_debt = FloatAdd(@, RateChange(scenario)),
        !.ebitda = ScenarioEbitda(@, scenario)]

\* lines 319-321: the inputs every reported base figure is calculated from
ValuationInputsUsed(inputs, scenario) ==
    IF scenario.none THEN inputs ELSE apply_scenario(inputs, scenario)

\* x / ebitda if ebitda != 0 else 0
PerEbitda(x, valuation_inputs) ==
    IF valuation_inputs.ebitda.n # 0 THEN InfDiv(x, valuation_inputs.ebitda) ELSE Zero

\* the core fields of ValuationResults(...), lines 324-335 and 392-407
BaseResults(valuation_inputs) ==
    [epv |-> calculate_epv(valuation_inputs),
     wacc |-> calculate_wacc(valuation_inputs),
     cost_of_equity |-> CostOfEquity(valuation_inputs),
     cost_of_debt_after_tax |-> CostOfDebtAfterTax(valuation_inputs),
     ev_ebitda_ratio |->
         PerEbitda(InfAdd(calculate_epv(valuation_inputs), valuation_inputs.net_debt),
                   valuation_inputs),
     net_debt_ebitda_ratio |-> PerEbitda(valuation_inputs.net_debt, valuation_inputs),
     scenario_epv |-> NoneValue]

\* The DCF figures and the enhanced analytics (roic, roe, ...) are calculated
\* from the same valuation_inputs and feed neither epv nor scenario_epv; the
\* result here carries the core valuation fields and scenario_epv.
calculate_valuation(inputs, scenario) ==
    IF scenario.none
    THEN BaseResults(ValuationInputsUsed(inputs, scenario))
    ELSE [BaseResults(ValuationInputsUsed(inputs, scenario)) EXCEPT
             !.scenario_epv = calculate_epv(apply_scenario(inputs, scenario))]

(***************************************************************************)
(* Specification SpecValuation: calculate_valuation called on an engine    *)
(* with inputs and scenarios from small pools.                             *)
(***************************************************************************)
\* ValuationInputs(ebitda, net_debt, maintenance_capex) with the defaults of
\* lines 48-62
ValuationInputs(ebitda, net_debt, maintenance_capex) ==
    [ebitda |-> ebitda, net_debt |-> net_debt,
     maintenance_capex |-> maintenance_capex,
     tax_rate |-> Num(25, 100), reinvestment_rate |-> Num(15, 100),
     risk_free_rate |-> Num(4, 100), market_risk_premium |-> Num(6, 100),
     beta |-> Num(8, 10), cost_of_debt |-> Num(5, 100),
     debt_weight |-> Num(4, 10), equity_weight |-> Num(6, 10)]

ValuationScenario(rate_bps_change, throughput_pct_change, ebitda_uplift) ==
    [none |-> FALSE, rate_bps_change |-> rate_bps_change,
     throughput_pct_change |-> throughput_pct_change,
     ebitda_uplift |-> ebitda_uplift]

InputPool ==
    {ValuationInputs(Num(e, 1), Num(nd, 1), Num(c, 1)) :
        e \in {0, 1000, 3450}, nd \in {0, 18000}, c \in {220, 1000}}

ScenarioPool ==
    {NoneValue}
    \cup {ValuationScenario(bps, Num(t, 1), Num(u, 100)) :
            bps \in {-10000, -200, 0, 100, 200}, t \in {-5, 0, 5, 10}, u \in {0, 2}}

ValuationInit ==
    /\ mappings = <<>>
    /\ citations = <<>>
    /\ fs = <<>>
    /\ loaded = <<>>
    /\ last = Idle
    /\ cite = Idle
    /\ num = Idle
    /\ single = Idle
    /\ xbrl = Idle
    /\ batch = Idle
    /\ calls = Idle
    /\ manager = Idle
    /\ valuation = [pc |-> "engine"]

\* The engine keeps nothing between calls (__init__ is `pass`), so one call
\* per behaviour stands for every call.
CalculateValuation(inputs, scenario) ==
    /\ valuation.pc = "engine"
    /\ valuation' = [pc |-> "returned", inputs |-> inputs, scenario |-> scenario,
                     results |-> calculate_valuation(inputs, scenario)]
    /\ UNCHANGED <<mappings, citations, fs, loaded, last, cite, num, single, xbrl,
                   batch, calls, manager>>

ValuationNext ==
    \E inputs \in InputPool, scenario \in ScenarioPool :
        CalculateValuation(inputs, scenario)

SpecValuation == ValuationInit /\ [][ValuationNext]_vars

\* the scenario of the last call changes the inputs: a non-zero rate or
\* throughput change
ScenarioChangesInputs ==
    /\ valuation.pc = "returned"
    /\ ~valuation.scenario.none
    /\ \/ valuation.scenario.rate_bps_change # 0
       \/ valuation.scenario.throughput_pct_change.n # 0

\* C24: when calculate_valuation is given a scenario with a non-zero rate or
\* throughput change, the reported scenario_epv is not None and differs from
\* the epv reported in the same result.
C24_ScenarioEpvDiffers ==
    ScenarioChangesInputs =>
        /\ ~valuation.results.scenario_epv.none
        /\ valuation.results.scenario_epv # valuation.results.epv

====
